---- MODULE Spec2Model ----
(***************************************************************************)
(* A model of the GemmaVoice speech API backend:                           *)
(*   - LLMService (app/services/llm.py): lazy one-time model load under    *)
(*     an asyncio lock, shutdown, blocking and streaming generation;       *)
(*   - OpenAudioService.synthesize_stream (app/services/openaudio.py):     *)
(*     the retrying streaming iterator;                                    *)
(*   - the dialogue and speech endpoints (app/api/v1/conversation.py,      *)
(*     app/api/v1/speech.py) that drive that iterator.                     *)
(* Event-loop tasks interleave at their await points; worker threads       *)
(* started with asyncio.to_thread run concurrently with the loop.          *)
(***************************************************************************)
EXTENDS Integers, Sequences, FiniteSets, TLC

(***************************************************************************)
(* Bounds                                                                  *)
(***************************************************************************)
\* number of event-loop tasks that each call one LLMService operation
NTasks == 2
\* longest chunk sequence the llama.cpp streaming call produces
MaxChunks == 2
\* largest openaudio_max_retries setting explored
MaxRetries == 4
\* most audio chunks one HTTP response of the TTS service carries
MaxAudio == 2
\* messages one WebSocket session receives
MaxMsgs == 3
\* an end_turn with fewer buffered bytes than this is refused
MinAudioBytes == 100
\* longest prompt and system prompt posted to /generate, in characters
MaxLen == 3
\* times a templated prompt is posted again
MaxRounds == 2
\* most segments one transcription response lists
MaxSegs == 2
\* agent jobs that run entrypoint() in one worker process
NJobs == 3
\* chunks one LLM stream yields to the SSE conversion
MaxStream == 3

Tasks == 1..NTasks

\* no form has been read
NoForm == [audio |-> "none", generation_config |-> "none", synthesis_config |-> "none"]

VARIABLES
    \* ---- LLMService fields
    llm,          \* self._llm: "None", "Model", or "Deleted" (attribute removed by del)
    model_path,   \* self._model_path: "None" or "Path"
    is_loading,   \* self._is_loading
    load_lock,    \* self._load_lock: 0 when free, else the task holding it
    \* ---- event-loop tasks calling the service
    op,           \* the operation each task runs
    pc,           \* each task's position in its operation
    result,       \* how the operation ended: "ok" or the exception raised
    lazy,         \* lazy-load trigger of a generate call: "none", "pending", "ok", "failed"
    callee,       \* what the inference worker call was made on: "no" call, "Model", "None", "Deleted"
    running,      \* task inside a synchronous section of the loop (0: none)
    worker,       \* worker thread of a generate call: "none","running","returned","raised","abandoned","abandoned_done"
    raised,       \* exception raised by the inference call: "none" or its type
    cause,        \* __cause__ of the exception the adapter raised: "none" or its type
    downloads,    \* hf_hub_download calls made
    loads,        \* _load_llama_model calls made
    failures,     \* download/load steps that raised
    releases,     \* shutdowns that released a loaded model
    \* ---- the synchronous llama.cpp stream of a generate_stream call
    gen,          \* generator object: "none","created","running","suspended","exhausted","failed","closed"
    fetch,        \* result of the last next() in the worker thread: "none","chunk","end","error"
    produced,     \* chunks the model's generator has produced
    yielded,      \* chunks generate_stream has yielded to its consumer
    exit,         \* pending way out of _stream_generator while its finally runs
    \* ---- one request to a dialogue or speech endpoint
    transport,    \* which endpoint serves it
    form,         \* POST /conversation/dialogue: the form fields as received (NoForm: not read)
    d_pc,         \* the handler's position
    calls,        \* adapter calls the orchestrator has made, in order
    d_err,        \* exception raised by the pipeline: "none" or its kind
    out,          \* event kinds sent to the client, in order
    audio_format, \* dialogue WebSocket: declared format of the buffered audio
    http_status,  \* status of the HTTP response (0: none yet)
    connected,    \* the client is still connected
    gone_at,      \* chunks the iterator had yielded when the client disconnected
    \* ---- the session of the dialogue WebSocket
    audio_buffer, \* payloads written to audio_buffer since it was last replaced
    received,     \* payloads of the audio messages accepted since the last turn ended
    turns,        \* end_turn messages whose handling is over
    msgs,         \* messages received so far
    turn_at,      \* messages of the window already sent when end_turn was received
    \* ---- OpenAudioService.synthesize (blocking)
    posts,        \* HTTP POSTs it has issued
    d_msg,        \* what its RuntimeError carries: "none", "body" (the response text), "generic"
    \* ---- the iterator built by OpenAudioService.synthesize_stream
    retries,      \* settings.openaudio_max_retries
    it_pc,        \* the iterator's position
    attempt,      \* its attempt counter
    status_recv,  \* attempt on which a response with status >= 400 arrived (0: none)
    sleeps,       \* the backoff delays slept, in order
    it_pos,       \* chunks of the current response already yielded
    delivered,    \* chunks yielded to the consumer, as positions in their response
    \* ---- one prompt on its way through _apply_chat_template
    tpl_pc,       \* "idle", "request" (a prompt was posted), "templated"
    tpl_prompt,   \* the prompt of the request, a sequence of characters
    tpl_system,   \* its system_prompt (<<>>: None or the empty string, both falsy)
    tpl_result,   \* what _apply_chat_template returned for it
    tpl_rounds,   \* times the returned prompt has been posted again
    \* ---- one exception on its way through ErrorHandlerMiddleware
    err_pc,       \* "idle", "raised" (call_next raised), "responded"
    err_debug,    \* the middleware's debug flag
    err_exc,      \* the exception object
    err_response, \* the JSON response built for it
    \* ---- one WhisperService.transcribe call
    stt_pc,       \* "idle", "call", "local", "remote", "done"
    stt_cfg,      \* enable_faster_whisper, a remote client exists, openai importable
    stt_requests, \* requests sent to the remote transcription API
    stt_error,    \* "none", or the exception transcribe raised
    stt_payload,  \* the response payload of the remote API
    stt_result,   \* the WhisperTranscription returned
    \* ---- the worker's global ServiceFactory and the jobs that ask for it
    service_factory, \* worker._service_factory: "None" or "Factory"
    started,      \* ServiceFactory._started
    service_sets, \* sets of backend services created so far
    job_pc,       \* per job: "idle", "starting", "has_factory", "done"
    job_result,   \* per job: "none", "agent", or the exception that ended it
    \* ---- one SSE response of POST /generate_stream
    sse_pc,       \* "idle", "loop", "done_event", "reraise", "finished"
    sse_pulled,   \* chunks taken from the LLM stream
    total_tokens, \* create_token_stream's counter
    sse_exc,      \* exception the LLM stream raised, or "none"
    sse_events    \* SSE events yielded to the response, in order

llmVars == <<llm, model_path, is_loading, load_lock, op, pc, result, lazy, callee,
            worker, raised, cause,
             running, downloads, loads, failures, releases,
             gen, fetch, produced, yielded, exit>>

ttsVars == <<transport, form, gone_at, turn_at, d_pc, calls, d_err, out, audio_format, http_status, connected,
            audio_buffer, received, turns, msgs, posts, d_msg,
             retries, it_pc, attempt, status_recv, sleeps, it_pos, delivered>>

tplVars == <<tpl_pc, tpl_prompt, tpl_system, tpl_result, tpl_rounds>>

errVars == <<err_pc, err_debug, err_exc, err_response>>

sttVars == <<stt_pc, stt_cfg, stt_requests, stt_error, stt_payload, stt_result>>

facVars == <<service_factory, started, service_sets, job_pc, job_result>>

sseVars == <<sse_pc, sse_pulled, total_tokens, sse_exc, sse_events>>

auxVars == <<tplVars, errVars, sttVars, facVars, sseVars>>

vars == <<llmVars, ttsVars, auxVars>>

\* LLMService.__init__: nothing loaded, no call in progress
Constructed ==
    /\ llm = "None"
    /\ model_path = "None"
    /\ is_loading = FALSE
    /\ load_lock = 0
    /\ op = [t \in Tasks |-> "none"]
    /\ pc = [t \in Tasks |-> "idle"]
    /\ result = [t \in Tasks |-> "none"]
    /\ lazy = [t \in Tasks |-> "none"]
    /\ callee = [t \in Tasks |-> "no"]
    /\ worker = [t \in Tasks |-> "none"]
    /\ raised = [t \in Tasks |-> "none"]
    /\ cause = [t \in Tasks |-> "none"]
    /\ running = 0
    /\ downloads = 0
    /\ loads = 0
    /\ failures = 0
    /\ releases = 0
    /\ gen = [t \in Tasks |-> "none"]
    /\ fetch = [t \in Tasks |-> "none"]
    /\ produced = [t \in Tasks |-> <<>>]
    /\ yielded = [t \in Tasks |-> <<>>]
    /\ exit = [t \in Tasks |-> "none"]

\* no endpoint request is in progress
IdleTTS ==
    /\ transport = "none"
    /\ form = NoForm
    /\ d_pc = "closed"
    /\ calls = <<>>
    /\ d_err = "none"
    /\ out = <<>>
    /\ audio_format = "webm"
    /\ http_status = 0
    /\ connected = FALSE
    /\ gone_at = 0
    /\ audio_buffer = <<>>
    /\ received = <<>>
    /\ turns = 0
    /\ msgs = 0
    /\ turn_at = 0
    /\ posts = 0
    /\ d_msg = "none"
    /\ retries = 0
    /\ it_pc = "unstarted"
    /\ attempt = 0
    /\ status_recv = 0
    /\ sleeps = <<>>
    /\ it_pos = 0
    /\ delivered = <<>>

\* no prompt is being templated
IdleTpl ==
    /\ tpl_pc = "idle"
    /\ tpl_prompt = <<>>
    /\ tpl_system = <<>>
    /\ tpl_result = [text |-> <<>>, applied |-> FALSE]
    /\ tpl_rounds = 0

\* no response has been built
NoResponse == [status |-> 0, fields |-> {}, error |-> "none", message |-> "none", details |-> {}]

\* no exception is being handled
IdleErr ==
    /\ err_pc = "idle"
    /\ err_debug = FALSE
    /\ err_exc = [type |-> "none", error_code |-> "none", message |-> "none", details |-> {}]
    /\ err_response = NoResponse

\* no payload, no transcription
NoPayload == [shape |-> "none", has_text |-> FALSE, text |-> <<>>, segments |-> <<>>]
NoTranscription == [text |-> <<>>, segments |-> <<>>]

\* no transcription is in progress
IdleStt ==
    /\ stt_pc = "idle"
    /\ stt_cfg = [enable_faster_whisper |-> FALSE, client |-> FALSE, openai |-> FALSE]
    /\ stt_requests = 0
    /\ stt_error = "none"
    /\ stt_payload = NoPayload
    /\ stt_result = NoTranscription

Jobs == 1..NJobs

\* worker module just imported: `_service_factory = None`, no job yet
WorkerLoaded ==
    /\ service_factory = "None"
    /\ started = FALSE
    /\ service_sets = 0
    /\ job_pc = [j \in Jobs |-> "idle"]
    /\ job_result = [j \in Jobs |-> "none"]

\* no SSE response is being produced
IdleSse ==
    /\ sse_pc = "idle"
    /\ sse_pulled = 0
    /\ total_tokens = 0
    /\ sse_exc = "none"
    /\ sse_events = <<>>

\* nothing outside the services is in progress
IdleAux == IdleTpl /\ IdleErr /\ IdleStt /\ WorkerLoaded /\ IdleSse

\* the LLM service alone: no endpoint request is in progress
InitLLM == Constructed /\ IdleTTS /\ IdleAux

streamVars == <<gen, fetch, produced, yielded, exit>>
countVars == <<downloads, loads, failures, releases>>
inferVars == <<worker, raised, cause>>

\* LLMService.is_ready: `self._llm is not None`; reading a deleted attribute raises
is_ready == llm = "Model"

\* LLMService.model: `if self._llm is None: raise ModelNotLoadedError`, else the
\* instance; the read of an attribute removed by del raises AttributeError
model ==
    CASE llm = "None" -> "ModelNotLoadedError"
      [] llm = "Deleted" -> "AttributeError"
      [] OTHER -> llm

\* where a caller of startup() continues when startup returns normally
AfterStartupPc(t) ==
    CASE op[t] = "startup" -> "done"
      [] op[t] = "generate" -> "g_dispatch"
      [] op[t] = "generate_stream" -> "st_create"

\* startup() returned normally to task t
StartupReturns(t) ==
    /\ pc' = [pc EXCEPT ![t] = AfterStartupPc(t)]
    /\ result' = [result EXCEPT ![t] = IF op[t] = "startup" THEN "ok" ELSE @]
    /\ lazy' = [lazy EXCEPT ![t] = IF op[t] = "startup" THEN @ ELSE "ok"]
    /\ running' = IF op[t] = "generate" THEN t ELSE 0

\* startup() raised exc in task t; generate/generate_stream let it propagate
StartupRaises(t, exc) ==
    /\ pc' = [pc EXCEPT ![t] = "done"]
    /\ result' = [result EXCEPT ![t] = exc]
    /\ lazy' = [lazy EXCEPT ![t] = IF op[t] = "startup" THEN @ ELSE "failed"]
    /\ running' = 0

\* a task calls LLMService.startup(): it queues on the load lock
CallStartup(t) ==
    /\ pc[t] = "idle" /\ running = 0
    /\ op' = [op EXCEPT ![t] = "startup"]
    /\ pc' = [pc EXCEPT ![t] = "s_lock"]
    /\ UNCHANGED <<llm, model_path, is_loading, load_lock, result, lazy, callee,
                   running, countVars, streamVars>>
    /\ UNCHANGED <<inferVars, ttsVars, auxVars>>

\* StartupEnter without the load lock: the body runs while another task loads
StartupEnterNoLock(t) ==
    /\ pc[t] = "s_lock" /\ running = 0
    /\ IF llm # "None" \/ is_loading
       THEN /\ StartupReturns(t)
            /\ UNCHANGED <<is_loading, load_lock, downloads>>
       ELSE /\ is_loading' = TRUE
            /\ load_lock' = t
            /\ downloads' = downloads + 1
            /\ pc' = [pc EXCEPT ![t] = "s_download"]
            /\ UNCHANGED <<result, lazy, running>>
    /\ UNCHANGED <<llm, model_path, op, callee, loads, failures, releases, streamVars>>
    /\ UNCHANGED <<inferVars, ttsVars, auxVars>>

\* startup(): the lock is acquired and the body runs up to the download
StartupEnter(t) ==
    /\ pc[t] = "s_lock" /\ running = 0
    /\ load_lock = 0
    /\ IF llm = "Deleted"
       THEN /\ StartupRaises(t, "AttributeError")
            /\ UNCHANGED <<is_loading, load_lock, downloads>>
       ELSE IF llm # "None" \/ is_loading
       THEN /\ StartupReturns(t)
            /\ UNCHANGED <<is_loading, load_lock, downloads>>
       ELSE /\ is_loading' = TRUE
            /\ load_lock' = t
            /\ downloads' = downloads + 1
            /\ pc' = [pc EXCEPT ![t] = "s_download"]
            /\ UNCHANGED <<result, lazy, running>>
    /\ UNCHANGED <<llm, model_path, op, callee, loads, failures, releases, streamVars>>
    /\ UNCHANGED <<inferVars, ttsVars, auxVars>>

\* DownloadDone without the finally block's reset of _is_loading on failure
DownloadDoneKeepsLoading(t) ==
    /\ pc[t] = "s_download" /\ running = 0
    /\ \E ok \in BOOLEAN :
        IF ok
        THEN /\ model_path' = "Path"
             /\ loads' = loads + 1
             /\ pc' = [pc EXCEPT ![t] = "s_load"]
             /\ UNCHANGED <<load_lock, result, lazy, running, failures>>
        ELSE /\ StartupRaises(t, "ModelNotLoadedError")
             /\ load_lock' = 0
             /\ failures' = failures + 1
             /\ UNCHANGED <<model_path, loads>>
    /\ UNCHANGED <<llm, is_loading, op, callee, downloads, releases, streamVars>>
    /\ UNCHANGED <<inferVars, ttsVars, auxVars>>

\* _download_and_load_model(): hf_hub_download finished in its worker thread
DownloadDone(t) ==
    /\ pc[t] = "s_download" /\ running = 0
    /\ \E ok \in BOOLEAN :
        IF ok
        THEN /\ model_path' = "Path"
             /\ loads' = loads + 1
             /\ pc' = [pc EXCEPT ![t] = "s_load"]
             /\ UNCHANGED <<is_loading, load_lock, result, lazy, running, failures>>
        ELSE /\ StartupRaises(t, "ModelNotLoadedError")
             /\ is_loading' = FALSE
             /\ load_lock' = 0
             /\ failures' = failures + 1
             /\ UNCHANGED <<model_path, loads>>
    /\ UNCHANGED <<llm, op, callee, downloads, releases, streamVars>>
    /\ UNCHANGED <<inferVars, ttsVars, auxVars>>

\* _download_and_load_model(): _load_llama_model finished in its worker thread
LoadDone(t) ==
    /\ pc[t] = "s_load" /\ running = 0
    /\ \E ok \in BOOLEAN :
        IF ok
        THEN /\ llm' = "Model"
             /\ StartupReturns(t)
             /\ UNCHANGED failures
        ELSE /\ StartupRaises(t, "ModelNotLoadedError")
             /\ failures' = failures + 1
             /\ UNCHANGED llm
    /\ is_loading' = FALSE
    /\ load_lock' = 0
    /\ UNCHANGED <<model_path, op, callee, downloads, loads, releases, streamVars>>
    /\ UNCHANGED <<inferVars, ttsVars, auxVars>>

\* the operation of task t ends with result r
Finish(t, r) ==
    /\ pc' = [pc EXCEPT ![t] = "done"]
    /\ result' = [result EXCEPT ![t] = r]

\* a task calls LLMService.shutdown(): it queues on the load lock
CallShutdown(t) ==
    /\ pc[t] = "idle" /\ running = 0
    /\ op' = [op EXCEPT ![t] = "shutdown"]
    /\ pc' = [pc EXCEPT ![t] = "sd_lock"]
    /\ UNCHANGED <<llm, model_path, is_loading, load_lock, result, lazy, callee,
                   running, countVars, streamVars>>
    /\ UNCHANGED <<inferVars, ttsVars, auxVars>>

\* shutdown(): the lock is acquired; a loaded model is released in a worker thread
ShutdownEnter(t) ==
    /\ pc[t] = "sd_lock" /\ running = 0
    /\ load_lock = 0
    /\ IF llm = "Deleted"
       THEN /\ Finish(t, "AttributeError")
            /\ UNCHANGED <<llm, model_path, load_lock, releases>>
       ELSE IF llm # "None"
       THEN /\ load_lock' = t
            /\ releases' = releases + 1
            /\ pc' = [pc EXCEPT ![t] = "sd_release"]
            /\ UNCHANGED <<llm, model_path, result>>
       ELSE /\ llm' = "None"
            /\ model_path' = "None"
            /\ Finish(t, "ok")
            /\ UNCHANGED <<load_lock, releases>>
    /\ UNCHANGED <<is_loading, op, lazy, callee, running, downloads, loads, failures,
                   streamVars>>
    /\ UNCHANGED <<inferVars, ttsVars, auxVars>>

\* _release_model() in the worker thread: `del self._llm` removes the attribute
ReleaseThread(t) ==
    /\ pc[t] = "sd_release"
    /\ llm' = IF llm # "None" THEN "Deleted" ELSE llm
    /\ pc' = [pc EXCEPT ![t] = "sd_released"]
    /\ UNCHANGED <<model_path, is_loading, load_lock, op, result, lazy, callee,
                   running, countVars, streamVars>>
    /\ UNCHANGED <<inferVars, ttsVars, auxVars>>

\* shutdown() resumes after the worker thread: fields reset, lock released
ShutdownFinish(t) ==
    /\ pc[t] = "sd_released" /\ running = 0
    /\ llm' = "None"
    /\ model_path' = "None"
    /\ load_lock' = 0
    /\ Finish(t, "ok")
    /\ UNCHANGED <<is_loading, op, lazy, callee, running, countVars, streamVars>>
    /\ UNCHANGED <<inferVars, ttsVars, auxVars>>

\* CallGenerate without the lazy load: inference is dispatched straight away
CallGenerateNoLazyLoad(t) ==
    /\ pc[t] = "idle" /\ running = 0
    /\ op' = [op EXCEPT ![t] = "generate"]
    /\ pc' = [pc EXCEPT ![t] = "g_dispatch"]
    /\ running' = t
    /\ UNCHANGED <<llm, model_path, is_loading, load_lock, result, lazy, callee,
                   countVars, streamVars>>
    /\ UNCHANGED <<inferVars, ttsVars, auxVars>>

\* generate(): the is_ready test, then the lazy load or the inference dispatch
CallGenerate(t) ==
    /\ pc[t] = "idle" /\ running = 0
    /\ op' = [op EXCEPT ![t] = "generate"]
    /\ IF llm = "Deleted"
       THEN /\ Finish(t, "AttributeError")
            /\ UNCHANGED <<lazy, running>>
       ELSE IF is_ready
       THEN /\ pc' = [pc EXCEPT ![t] = "g_dispatch"]
            /\ running' = t
            /\ UNCHANGED <<result, lazy>>
       ELSE /\ pc' = [pc EXCEPT ![t] = "s_lock"]
            /\ lazy' = [lazy EXCEPT ![t] = "pending"]
            /\ UNCHANGED <<result, running>>
    /\ UNCHANGED <<llm, model_path, is_loading, load_lock, callee, countVars, streamVars>>
    /\ UNCHANGED <<inferVars, ttsVars, auxVars>>

\* generate(): asyncio.to_thread(self._llm, prompt, ...) is evaluated and awaited
\* under wait_for; a missing or None self._llm fails inside the try block
GenerateDispatch(t) ==
    /\ pc[t] = "g_dispatch" /\ running = t
    /\ running' = 0
    /\ callee' = [callee EXCEPT ![t] = IF llm = "Deleted" THEN "no" ELSE llm]
    /\ IF llm = "Model"
       THEN /\ pc' = [pc EXCEPT ![t] = "g_infer"]
            /\ worker' = [worker EXCEPT ![t] = "running"]
            /\ UNCHANGED <<result, raised, cause>>
       ELSE /\ Finish(t, "GenerationError")
            /\ raised' = [raised EXCEPT ![t] =
                   IF llm = "Deleted" THEN "AttributeError" ELSE "TypeError"]
            /\ cause' = [cause EXCEPT ![t] = raised'[t]]
            /\ UNCHANGED worker
    /\ UNCHANGED <<llm, model_path, is_loading, load_lock, op, lazy, countVars, streamVars>>
    /\ UNCHANGED <<ttsVars, auxVars>>

\* self._llm(prompt, **kwargs) in the worker thread returns or raises; a call
\* whose awaiter timed out still runs to its end
InferThread(t) ==
    /\ worker[t] \in {"running", "abandoned"}
    /\ IF worker[t] = "abandoned"
       THEN /\ worker' = [worker EXCEPT ![t] = "abandoned_done"]
            /\ UNCHANGED raised
       ELSE \E ok \in BOOLEAN :
            /\ worker' = [worker EXCEPT ![t] = IF ok THEN "returned" ELSE "raised"]
            /\ raised' = [raised EXCEPT ![t] = IF ok THEN @ ELSE "EngineError"]
    /\ UNCHANGED <<llm, model_path, is_loading, load_lock, op, pc, result, lazy, callee,
                   running, cause, countVars, streamVars>>
    /\ UNCHANGED <<ttsVars, auxVars>>

\* InferDone that reports a timeout as GenerationError
InferDoneTimeoutAsError(t) ==
    /\ pc[t] = "g_infer" /\ running = 0
    /\ CASE worker[t] = "returned" ->
                /\ Finish(t, "ok")
                /\ UNCHANGED <<worker, cause>>
         [] worker[t] = "raised" ->
                /\ Finish(t, "GenerationError")
                /\ cause' = [cause EXCEPT ![t] = raised[t]]
                /\ UNCHANGED worker
         [] worker[t] = "running" ->
                /\ Finish(t, "GenerationError")
                /\ cause' = [cause EXCEPT ![t] = "TimeoutError"]
                /\ worker' = [worker EXCEPT ![t] = "abandoned"]
    /\ UNCHANGED <<llm, model_path, is_loading, load_lock, op, lazy, callee, running,
                   raised, countVars, streamVars>>
    /\ UNCHANGED <<ttsVars, auxVars>>

\* InferDone that wraps an engine failure without keeping it as the cause
InferDoneDropsCause(t) ==
    /\ pc[t] = "g_infer" /\ running = 0
    /\ CASE worker[t] = "returned" ->
                /\ Finish(t, "ok")
                /\ UNCHANGED <<worker, cause>>
         [] worker[t] = "raised" ->
                /\ Finish(t, "GenerationError")
                /\ UNCHANGED <<worker, cause>>
         [] worker[t] = "running" ->
                /\ Finish(t, "GenerationTimeoutError")
                /\ cause' = [cause EXCEPT ![t] = "TimeoutError"]
                /\ worker' = [worker EXCEPT ![t] = "abandoned"]
    /\ UNCHANGED <<llm, model_path, is_loading, load_lock, op, lazy, callee, running,
                   raised, countVars, streamVars>>
    /\ UNCHANGED <<ttsVars, auxVars>>

\* generate(): the awaited worker call returned (result), raised (GenerationError
\* from exc), or wait_for timed out first (GenerationTimeoutError from exc; the
\* worker thread cannot be interrupted and is left running)
InferDone(t) ==
    /\ pc[t] = "g_infer" /\ running = 0
    /\ CASE worker[t] = "returned" ->
                /\ Finish(t, "ok")
                /\ UNCHANGED <<worker, cause>>
         [] worker[t] = "raised" ->
                /\ Finish(t, "GenerationError")
                /\ cause' = [cause EXCEPT ![t] = raised[t]]
                /\ UNCHANGED worker
         [] worker[t] = "running" ->
                /\ Finish(t, "GenerationTimeoutError")
                /\ cause' = [cause EXCEPT ![t] = "TimeoutError"]
                /\ worker' = [worker EXCEPT ![t] = "abandoned"]
    /\ UNCHANGED <<llm, model_path, is_loading, load_lock, op, lazy, callee, running,
                   raised, countVars, streamVars>>
    /\ UNCHANGED <<ttsVars, auxVars>>

\* generate_stream(): the is_ready test, then the lazy load or _stream_generator
CallGenerateStream(t) ==
    /\ pc[t] = "idle" /\ running = 0
    /\ op' = [op EXCEPT ![t] = "generate_stream"]
    /\ IF llm = "Deleted"
       THEN /\ Finish(t, "AttributeError")
            /\ UNCHANGED lazy
       ELSE IF is_ready
       THEN /\ pc' = [pc EXCEPT ![t] = "st_create"]
            /\ UNCHANGED <<result, lazy>>
       ELSE /\ pc' = [pc EXCEPT ![t] = "s_lock"]
            /\ lazy' = [lazy EXCEPT ![t] = "pending"]
            /\ UNCHANGED result
    /\ UNCHANGED <<llm, model_path, is_loading, load_lock, callee, running, countVars,
                   streamVars>>
    /\ UNCHANGED <<inferVars, ttsVars, auxVars>>

\* _stream_generator(): the generator object exists and the first next() is sent
\* to a worker thread
StreamCreated(t) ==
    /\ pc[t] = "st_create" /\ running = 0
    /\ gen' = [gen EXCEPT ![t] = "running"]
    /\ pc' = [pc EXCEPT ![t] = "st_fetch"]
    /\ UNCHANGED <<llm, model_path, is_loading, load_lock, op, result, lazy, callee,
                   running, countVars, fetch, produced, yielded, exit>>
    /\ UNCHANGED <<inferVars, ttsVars, auxVars>>

\* next(stream_gen, None) in the worker thread: _sync_stream runs to its next yield;
\* its first entry evaluates self._llm(prompt, stream=True)
NextThread(t) ==
    /\ gen[t] = "running"
    /\ IF callee[t] = "no" /\ llm # "Model"
       THEN /\ callee' = [callee EXCEPT ![t] = IF llm = "Deleted" THEN "no" ELSE llm]
            /\ gen' = [gen EXCEPT ![t] = "failed"]
            /\ fetch' = [fetch EXCEPT ![t] = "error"]
            /\ raised' = [raised EXCEPT ![t] =
                   IF llm = "Deleted" THEN "AttributeError" ELSE "TypeError"]
            /\ UNCHANGED produced
       ELSE /\ callee' = [callee EXCEPT ![t] = "Model"]
            /\ \E o \in {"chunk", "end", "error"} :
                /\ o = "chunk" => Len(produced[t]) < MaxChunks
                /\ fetch' = [fetch EXCEPT ![t] = o]
                /\ gen' = [gen EXCEPT ![t] =
                       CASE o = "chunk" -> "suspended"
                         [] o = "end" -> "exhausted"
                         [] o = "error" -> "failed"]
                /\ produced' = [produced EXCEPT ![t] =
                       IF o = "chunk" THEN Append(@, Len(@) + 1) ELSE @]
                /\ raised' = [raised EXCEPT ![t] = IF o = "error" THEN "EngineError" ELSE @]
    /\ UNCHANGED <<llm, model_path, is_loading, load_lock, op, pc, result, lazy,
                   running, worker, cause, countVars, yielded, exit>>
    /\ UNCHANGED <<ttsVars, auxVars>>

\* StreamResume that drops the chunk it received instead of yielding it
StreamResumeDropsChunk(t) ==
    /\ pc[t] = "st_fetch" /\ running = 0
    /\ fetch[t] # "none"
    /\ fetch' = [fetch EXCEPT ![t] = "none"]
    /\ IF fetch[t] = "chunk"
       THEN /\ pc' = [pc EXCEPT ![t] = "st_yield"]
            /\ UNCHANGED <<yielded, exit, cause>>
       ELSE /\ exit' = [exit EXCEPT ![t] = IF fetch[t] = "end" THEN "ok" ELSE "GenerationError"]
            /\ cause' = [cause EXCEPT ![t] = IF fetch[t] = "end" THEN @ ELSE raised[t]]
            /\ pc' = [pc EXCEPT ![t] = "st_close"]
            /\ UNCHANGED yielded
    /\ UNCHANGED <<llm, model_path, is_loading, load_lock, op, result, lazy, callee,
                   running, worker, raised, countVars, gen, produced>>
    /\ UNCHANGED <<ttsVars, auxVars>>

\* _stream_generator(): the awaited next() returned; yield the chunk, or leave
\* the loop through the finally block; generate_stream wraps an exception in
\* GenerationError with the exception as its cause
StreamResume(t) ==
    /\ pc[t] = "st_fetch" /\ running = 0
    /\ fetch[t] # "none"
    /\ fetch' = [fetch EXCEPT ![t] = "none"]
    /\ IF fetch[t] = "chunk"
       THEN /\ yielded' = [yielded EXCEPT ![t] = Append(@, produced[t][Len(produced[t])])]
            /\ pc' = [pc EXCEPT ![t] = "st_yield"]
            /\ UNCHANGED <<exit, cause>>
       ELSE /\ exit' = [exit EXCEPT ![t] = IF fetch[t] = "end" THEN "ok" ELSE "GenerationError"]
            /\ cause' = [cause EXCEPT ![t] = IF fetch[t] = "end" THEN @ ELSE raised[t]]
            /\ pc' = [pc EXCEPT ![t] = "st_close"]
            /\ UNCHANGED yielded
    /\ UNCHANGED <<llm, model_path, is_loading, load_lock, op, result, lazy, callee,
                   running, worker, raised, countVars, gen, produced>>
    /\ UNCHANGED <<ttsVars, auxVars>>

\* the consumer asks for the next chunk: the next next() goes to a worker thread
ConsumerNext(t) ==
    /\ pc[t] = "st_yield" /\ running = 0
    /\ gen' = [gen EXCEPT ![t] = "running"]
    /\ pc' = [pc EXCEPT ![t] = "st_fetch"]
    /\ UNCHANGED <<llm, model_path, is_loading, load_lock, op, result, lazy, callee,
                   running, countVars, fetch, produced, yielded, exit>>
    /\ UNCHANGED <<inferVars, ttsVars, auxVars>>

\* the consuming task is cancelled while it awaits a worker thread
CancelStream(t) ==
    /\ pc[t] \in {"st_create", "st_fetch"} /\ running = 0
    /\ IF pc[t] = "st_create"
       THEN /\ Finish(t, "StreamCancelledError")
            /\ UNCHANGED exit
       ELSE /\ exit' = [exit EXCEPT ![t] = "StreamCancelledError"]
            /\ pc' = [pc EXCEPT ![t] = "st_close"]
            /\ UNCHANGED result
    /\ UNCHANGED <<llm, model_path, is_loading, load_lock, op, lazy, callee,
                   running, countVars, gen, fetch, produced, yielded>>
    /\ UNCHANGED <<inferVars, ttsVars, auxVars>>

\* the finally block: stream_gen.close() in a worker thread; closing a generator
\* that another thread is executing raises ValueError, which is swallowed
CloseThread(t) ==
    /\ pc[t] = "st_close" /\ running = 0
    /\ gen' = [gen EXCEPT ![t] = IF @ \in {"created", "suspended"} THEN "closed" ELSE @]
    /\ Finish(t, exit[t])
    /\ UNCHANGED <<llm, model_path, is_loading, load_lock, op, lazy, callee,
                   running, countVars, fetch, produced, yielded, exit>>
    /\ UNCHANGED <<inferVars, ttsVars, auxVars>>

(***************************************************************************)
(* POST /generate and POST /generate_stream, and the error middleware       *)
(***************************************************************************)
\* ErrorHandlerMiddleware.handle_exception: the status it gives an exception
\* that reaches it
handle_exception(exc) ==
    CASE exc = "ModelNotLoadedError" -> 503
      [] exc = "GenerationTimeoutError" -> 504
      [] exc = "StreamCancelledError" -> 499
      [] exc = "ValidationError" -> 400
      [] exc = "GenerationError" -> 500
      [] OTHER -> 500

\* generate_text: 200 with the text, or the HTTPException its except clauses
\* raise; no exception of llm_service.generate leaves the handler
generate_text(r) ==
    CASE r = "ok" -> 200
      [] r = "ModelNotLoadedError" -> 503
      [] r = "GenerationError" -> 500
      [] OTHER -> 500

\* generate_text_stream: the StreamingResponse is returned before sse_generator
\* runs, and sse_generator turns every failure into an error event
generate_text_stream(r) == 200

\* the status of the response to the request that made task t's call
HttpStatus(t) ==
    IF op[t] = "generate" THEN generate_text(result[t]) ELSE generate_text_stream(result[t])

NextLLM ==
    \E t \in Tasks :
        \/ CallStartup(t)
        \/ StartupEnter(t)
        \/ DownloadDone(t)
        \/ LoadDone(t)
        \/ CallShutdown(t)
        \/ ShutdownEnter(t)
        \/ ReleaseThread(t)
        \/ ShutdownFinish(t)
        \/ CallGenerate(t)
        \/ GenerateDispatch(t)
        \/ InferThread(t)
        \/ InferDone(t)
        \/ CallGenerateStream(t)
        \/ StreamCreated(t)
        \/ NextThread(t)
        \/ StreamResume(t)
        \/ ConsumerNext(t)
        \/ CancelStream(t)
        \/ CloseThread(t)

SpecLLM == InitLLM /\ [][NextLLM]_vars
(***************************************************************************)
(* OpenAudioService.synthesize_stream: the retrying iterator               *)
(***************************************************************************)
Transports == {"dialogue_json", "dialogue_ndjson", "dialogue_ws", "tts_sse", "tts_ws"}
DialogueTransports == {"dialogue_json", "dialogue_ndjson", "dialogue_ws"}
HttpTransports == {"dialogue_json", "dialogue_ndjson", "tts_sse"}
\* the transports that deliver the audio chunk by chunk
StreamingTransports == {"dialogue_ndjson", "dialogue_ws", "tts_sse", "tts_ws"}

\* one request arrives at one of the audio endpoints
Request ==
    /\ transport \in Transports
    /\ form = NoForm
    /\ d_pc = IF transport = "dialogue_ws" THEN "recv" ELSE "start"
    /\ calls = <<>>
    /\ d_err = "none"
    /\ out = <<>>
    /\ audio_format = "webm"
    /\ audio_buffer = <<>>
    /\ received = <<>>
    /\ turns = 0
    /\ msgs = 0
    /\ turn_at = 0
    /\ http_status = 0
    /\ connected = TRUE
    /\ gone_at = 0
    /\ posts = 0
    /\ d_msg = "none"
    /\ retries \in 0..MaxRetries
    /\ it_pc = "unstarted"
    /\ attempt = 0
    /\ status_recv = 0
    /\ sleeps = <<>>
    /\ it_pos = 0
    /\ delivered = <<>>

\* one endpoint request against a freshly constructed LLM service
InitTTS == Constructed /\ Request /\ IdleAux

synthVars == <<posts, d_msg>>
wsVars == <<audio_buffer, received, turns, msgs, turn_at>>
itVars == <<retries, it_pc, attempt, status_recv, sleeps, it_pos, delivered>>

\* the backoff without its cap
BackoffUncapped(a) == 2^a

\* backoff = min(2 ** attempt, 10)
Backoff(a) == IF 2^a < 10 THEN 2^a ELSE 10

\* ItHTTPError with the budget test off by one (attempt >= retries)
ItHTTPErrorOffByOne ==
    IF attempt >= retries
    THEN /\ it_pc' = "raised"
         /\ UNCHANGED sleeps
    ELSE /\ sleeps' = Append(sleeps, Backoff(attempt))
         /\ it_pc' = "sleep"

\* `except httpx.HTTPError`: give up once attempt > retries, else sleep the backoff
ItHTTPError ==
    IF attempt > retries
    THEN /\ it_pc' = "raised"
         /\ UNCHANGED sleeps
    ELSE /\ sleeps' = Append(sleeps, Backoff(attempt))
         /\ it_pc' = "sleep"

\* top of `while True`: attempt += 1 and the streaming POST is opened
ItLoopTop ==
    /\ attempt' = attempt + 1
    /\ it_pos' = 0
    /\ it_pc' = "request"

\* the iterator runs only while its consumer awaits the next chunk
ItRuns == d_pc = "audio"

\* `async with stream_ctx as response`: a network error, or the response headers
ItResponse ==
    /\ ItRuns /\ it_pc = "request"
    /\ \E o \in {"network_error", "status_error", "ok"} :
        CASE o = "network_error" -> ItHTTPError /\ UNCHANGED status_recv
          [] o = "status_error" ->
                /\ it_pc' = "error_body"
                /\ status_recv' = attempt
                /\ UNCHANGED sleeps
          [] o = "ok" ->
                /\ it_pc' = "body"
                /\ UNCHANGED <<status_recv, sleeps>>
    /\ UNCHANGED <<retries, attempt, it_pos, delivered>>
    /\ UNCHANGED <<transport, form, gone_at, synthVars, wsVars, d_pc, calls, d_err, out, audio_format, http_status, connected>>
    /\ UNCHANGED <<llmVars, auxVars>>

\* status >= 400: `await response.aread()` then RuntimeError; a network error
\* while reading the body is an httpx.HTTPError like any other
ItErrorBody ==
    /\ ItRuns /\ it_pc = "error_body"
    /\ \E read_ok \in BOOLEAN :
        IF read_ok
        THEN /\ it_pc' = "raised"
             /\ UNCHANGED sleeps
        ELSE ItHTTPError
    /\ UNCHANGED <<retries, attempt, status_recv, it_pos, delivered>>
    /\ UNCHANGED <<transport, form, gone_at, synthVars, wsVars, d_pc, calls, d_err, out, audio_format, http_status, connected>>
    /\ UNCHANGED <<llmVars, auxVars>>

\* `async for chunk in response.aiter_bytes()`: a chunk is yielded, the response
\* ends (break), or the connection fails
ItBody ==
    /\ ItRuns /\ it_pc = "body"
    /\ \E o \in {"chunk", "end", "network_error"} :
        CASE o = "chunk" ->
                /\ it_pos < MaxAudio
                /\ it_pos' = it_pos + 1
                /\ delivered' = Append(delivered, it_pos + 1)
                /\ it_pc' = "yield"
                /\ UNCHANGED sleeps
          [] o = "end" ->
                /\ it_pc' = "end"
                /\ UNCHANGED <<sleeps, it_pos, delivered>>
          [] o = "network_error" ->
                /\ ItHTTPError
                /\ UNCHANGED <<it_pos, delivered>>
    /\ UNCHANGED <<retries, attempt, status_recv>>
    /\ UNCHANGED <<transport, form, gone_at, synthVars, wsVars, d_pc, calls, d_err, out, audio_format, http_status, connected>>
    /\ UNCHANGED <<llmVars, auxVars>>

\* `await asyncio.sleep(backoff)` returns: the next attempt starts
ItWake ==
    /\ ItRuns /\ it_pc = "sleep"
    /\ ItLoopTop
    /\ UNCHANGED <<retries, status_recv, sleeps, delivered>>
    /\ UNCHANGED <<transport, form, gone_at, synthVars, wsVars, d_pc, calls, d_err, out, audio_format, http_status, connected>>
    /\ UNCHANGED <<llmVars, auxVars>>

\* first __anext__ on iterator_factory(): the iterator body starts running
ItStart ==
    /\ ItRuns /\ it_pc = "unstarted"
    /\ ItLoopTop
    /\ UNCHANGED <<retries, status_recv, sleeps, delivered>>
    /\ UNCHANGED <<transport, form, gone_at, synthVars, wsVars, d_pc, calls, d_err, out, audio_format, http_status, connected>>
    /\ UNCHANGED <<llmVars, auxVars>>

\* SynthesizeStream that opens the first streaming POST before it returns
SynthesizeStreamEager ==
    /\ calls' = Append(calls, "tts")
    /\ ItLoopTop
    /\ UNCHANGED <<retries, status_recv, sleeps, delivered>>

\* synthesize_stream(): payload and metadata are built and the stream object is
\* returned; no HTTP request is made
SynthesizeStream ==
    /\ calls' = Append(calls, "tts")
    /\ UNCHANGED itVars

(***************************************************************************)
(* ConversationService.run_dialogue: STT, then LLM, then TTS                *)
(***************************************************************************)
\* step 2: the STT adapter is called; its failure fails the turn
RunSTT ==
    /\ transport \in DialogueTransports /\ d_pc = "stt"
    /\ calls' = Append(calls, "stt")
    /\ \E ok \in BOOLEAN :
        IF ok THEN d_pc' = "llm" /\ UNCHANGED d_err
        ELSE d_pc' = "failed" /\ d_err' = "stt"
    /\ UNCHANGED <<transport, form, gone_at, synthVars, wsVars, out, audio_format, http_status, connected, itVars>>
    /\ UNCHANGED <<llmVars, auxVars>>

\* step 4: the LLM adapter is called for the full reply text
RunLLM ==
    /\ transport \in DialogueTransports /\ d_pc = "llm"
    /\ calls' = Append(calls, "llm")
    /\ \E ok \in BOOLEAN :
        IF ok THEN d_pc' = "tts" /\ UNCHANGED d_err
        ELSE d_pc' = "failed" /\ d_err' = "llm"
    /\ UNCHANGED <<transport, form, gone_at, synthVars, wsVars, out, audio_format, http_status, connected, itVars>>
    /\ UNCHANGED <<llmVars, auxVars>>

\* step 5: the TTS adapter is called, blocking or streaming as the caller asked
RunTTS ==
    /\ transport \in DialogueTransports /\ d_pc = "tts"
    /\ IF transport = "dialogue_json"
       THEN /\ calls' = Append(calls, "tts")
            /\ d_pc' = "synthesize"
            /\ UNCHANGED itVars
       ELSE /\ SynthesizeStream
            /\ d_pc' = "result"
    /\ UNCHANGED <<transport, form, gone_at, synthVars, wsVars, d_err, out, audio_format, http_status, connected>>
    /\ UNCHANGED <<llmVars, auxVars>>

\* Synthesize that repeats the POST after a network-level failure
SynthesizeRetries ==
    /\ d_pc = "synthesize"
    /\ posts' = posts + 1
    /\ \E o \in {"ok", "status_error", "network_error", "no_audio"} :
        CASE o = "ok" ->
                /\ d_pc' = "result"
                /\ UNCHANGED <<d_err, d_msg>>
          [] o = "status_error" ->
                /\ d_pc' = "failed" /\ d_err' = "tts" /\ d_msg' = "body"
          [] o = "network_error" ->
                /\ d_pc' = IF posts < 1 THEN "synthesize" ELSE "failed"
                /\ d_err' = IF posts < 1 THEN d_err ELSE "tts"
                /\ d_msg' = IF posts < 1 THEN d_msg ELSE "generic"
          [] o = "no_audio" ->
                /\ d_pc' = "failed" /\ d_err' = "tts" /\ d_msg' = "generic"
    /\ UNCHANGED <<transport, form, gone_at, wsVars, calls, out, audio_format, http_status, connected, itVars>>
    /\ UNCHANGED <<llmVars, auxVars>>

\* OpenAudioService.synthesize(): one client.post and raise_for_status; an
\* HTTPStatusError becomes a RuntimeError carrying exc.response.text (cut at 1000
\* characters), any other httpx.HTTPError a RuntimeError without it; a JSON
\* response without audio is a RuntimeError as well
Synthesize ==
    /\ d_pc = "synthesize"
    /\ posts' = posts + 1
    /\ \E o \in {"ok", "status_error", "network_error", "no_audio"} :
        CASE o = "ok" ->
                /\ d_pc' = "result"
                /\ UNCHANGED <<d_err, d_msg>>
          [] o = "status_error" ->
                /\ d_pc' = "failed" /\ d_err' = "tts" /\ d_msg' = "body"
          [] o = "network_error" ->
                /\ d_pc' = "failed" /\ d_err' = "tts" /\ d_msg' = "generic"
          [] o = "no_audio" ->
                /\ d_pc' = "failed" /\ d_err' = "tts" /\ d_msg' = "generic"
    /\ UNCHANGED <<transport, form, gone_at, wsVars, calls, out, audio_format, http_status, connected, itVars>>
    /\ UNCHANGED <<llmVars, auxVars>>

(***************************************************************************)
(* POST /conversation/dialogue                                             *)
(***************************************************************************)
\* a form field that carries JSON overrides, as the client may send it: left out,
\* "", "null", a JSON object, another JSON value, or text that is not JSON
RawValues == {"absent", "empty", "null", "object", "array", "malformed"}

\* _parse_json_field: None, "" and "null" give {}; text json.loads rejects, or
\* a value that is not a dict, gives HTTPException(400); an object gives the dict
_parse_json_field(raw_value) ==
    CASE raw_value \in {"absent", "empty", "null"} -> "{}"
      [] raw_value = "malformed" -> "HTTP400"
      [] raw_value = "array" -> "HTTP400"
      [] raw_value = "object" -> "dict"

\* Dialogue that parses the override fields only after run_dialogue has started
DialogueValidatesLate ==
    /\ transport \in {"dialogue_json", "dialogue_ndjson"} /\ d_pc = "start"
    /\ \E audio \in {"empty", "bytes"}, generation_config \in RawValues,
          synthesis_config \in RawValues :
        /\ form' = [audio |-> audio, generation_config |-> generation_config,
                    synthesis_config |-> synthesis_config]
        /\ IF audio = "empty"
           THEN /\ http_status' = 400
                /\ d_pc' = "closed"
           ELSE /\ d_pc' = "stt"
                /\ UNCHANGED http_status
    /\ UNCHANGED <<transport, gone_at, synthVars, wsVars, calls, d_err, out, audio_format, connected, itVars>>
    /\ UNCHANGED <<llmVars, auxVars>>

\* dialogue(): the upload is read; empty audio, or an override field that
\* _parse_json_field refuses, is answered 400; otherwise run_dialogue is awaited
Dialogue ==
    /\ transport \in {"dialogue_json", "dialogue_ndjson"} /\ d_pc = "start"
    /\ \E audio \in {"empty", "bytes"}, generation_config \in RawValues,
          synthesis_config \in RawValues :
        /\ form' = [audio |-> audio, generation_config |-> generation_config,
                    synthesis_config |-> synthesis_config]
        /\ IF \/ audio = "empty"
              \/ _parse_json_field(generation_config) = "HTTP400"
              \/ _parse_json_field(synthesis_config) = "HTTP400"
           THEN /\ http_status' = 400
                /\ d_pc' = "closed"
           ELSE /\ d_pc' = "stt"
                /\ UNCHANGED http_status
    /\ UNCHANGED <<transport, gone_at, synthVars, wsVars, calls, d_err, out, audio_format, connected, itVars>>
    /\ UNCHANGED <<llmVars, auxVars>>

\* DialogueFailed that answers 200 with a body although run_dialogue raised
DialogueFailedReturnsResult ==
    /\ transport \in {"dialogue_json", "dialogue_ndjson"} /\ d_pc = "failed"
    /\ http_status' = 200
    /\ out' = Append(out, "response")
    /\ d_pc' = "closed"
    /\ UNCHANGED <<transport, form, gone_at, synthVars, wsVars, calls, d_err, audio_format, connected, itVars>>
    /\ UNCHANGED <<llmVars, auxVars>>

\* dialogue(): run_dialogue raised; RuntimeError gives 503, anything else 500
DialogueFailed ==
    /\ transport \in {"dialogue_json", "dialogue_ndjson"} /\ d_pc = "failed"
    /\ http_status' = IF d_err = "llm" THEN 500 ELSE 503
    /\ d_pc' = "closed"
    /\ UNCHANGED <<transport, form, gone_at, synthVars, wsVars, calls, d_err, out, audio_format, connected, itVars>>
    /\ UNCHANGED <<llmVars, auxVars>>

\* dialogue(): the blocking result is returned as one JSON body
DialogueResponse ==
    /\ transport = "dialogue_json" /\ d_pc = "result"
    /\ http_status' = 200
    /\ out' = Append(out, "response")
    /\ d_pc' = "closed"
    /\ UNCHANGED <<transport, form, gone_at, synthVars, wsVars, calls, d_err, audio_format, connected, itVars>>
    /\ UNCHANGED <<llmVars, auxVars>>

\* DialogueStreamEmit that goes from the transcript line straight to the audio loop
DialogueStreamEmitSkipsText ==
    /\ transport = "dialogue_ndjson" /\ connected
    /\ d_pc \in {"result", "emit_transcript", "emit_text"}
    /\ http_status' = 200
    /\ out' = Append(out, CASE d_pc = "result" -> "metadata"
                            [] d_pc = "emit_transcript" -> "transcript"
                            [] d_pc = "emit_text" -> "assistant_text")
    /\ d_pc' = CASE d_pc = "result" -> "emit_transcript"
                 [] d_pc = "emit_transcript" -> "audio"
                 [] d_pc = "emit_text" -> "audio"
    /\ UNCHANGED <<transport, form, gone_at, synthVars, wsVars, calls, d_err, audio_format, connected, itVars>>
    /\ UNCHANGED <<llmVars, auxVars>>

\* dialogue_stream(): the metadata, transcript and assistant_text lines
DialogueStreamEmit ==
    /\ transport = "dialogue_ndjson" /\ connected
    /\ d_pc \in {"result", "emit_transcript", "emit_text"}
    /\ http_status' = 200
    /\ out' = Append(out, CASE d_pc = "result" -> "metadata"
                            [] d_pc = "emit_transcript" -> "transcript"
                            [] d_pc = "emit_text" -> "assistant_text")
    /\ d_pc' = CASE d_pc = "result" -> "emit_transcript"
                 [] d_pc = "emit_transcript" -> "emit_text"
                 [] d_pc = "emit_text" -> "audio"
    /\ UNCHANGED <<transport, form, gone_at, synthVars, wsVars, calls, d_err, audio_format, connected, itVars>>
    /\ UNCHANGED <<llmVars, auxVars>>

\* DialogueStreamAudio that also ends with done when the iterator raises
DialogueStreamAudioAlwaysDone ==
    /\ transport = "dialogue_ndjson" /\ connected
    /\ d_pc = "audio" /\ it_pc \in {"yield", "end", "raised"}
    /\ IF it_pc = "yield"
       THEN /\ out' = Append(out, "audio_chunk")
            /\ it_pc' = "body"
            /\ UNCHANGED d_pc
       ELSE /\ out' = Append(out, "done")
            /\ d_pc' = "closed"
            /\ UNCHANGED it_pc
    /\ UNCHANGED <<transport, form, gone_at, synthVars, wsVars, calls, d_err, audio_format, http_status, connected>>
    /\ UNCHANGED <<retries, attempt, status_recv, sleeps, it_pos, delivered>>
    /\ UNCHANGED <<llmVars, auxVars>>

\* dialogue_stream(): one audio_chunk line per chunk, then the done line; an
\* exception from the iterator leaves the generator without another line
DialogueStreamAudio ==
    /\ transport = "dialogue_ndjson" /\ connected
    /\ d_pc = "audio" /\ it_pc \in {"yield", "end", "raised"}
    /\ CASE it_pc = "yield" ->
                /\ out' = Append(out, "audio_chunk")
                /\ it_pc' = "body"
                /\ UNCHANGED d_pc
         [] it_pc = "end" ->
                /\ out' = Append(out, "done")
                /\ d_pc' = "closed"
                /\ UNCHANGED it_pc
         [] it_pc = "raised" ->
                /\ d_pc' = "closed"
                /\ UNCHANGED <<out, it_pc>>
    /\ UNCHANGED <<transport, form, gone_at, synthVars, wsVars, calls, d_err, audio_format, http_status, connected>>
    /\ UNCHANGED <<retries, attempt, status_recv, sleeps, it_pos, delivered>>
    /\ UNCHANGED <<llmVars, auxVars>>

(***************************************************************************)
(* WebSocket /conversation/ws: the receive loop and its turns               *)
(***************************************************************************)
\* decoded payloads of audio messages, named by their length in bytes
Payloads == {60, 120}

\* len(audio_buffer.getvalue())
RECURSIVE Size(_)
Size(b) == IF b = <<>> THEN 0 ELSE Head(b) + Size(Tail(b))

\* the handler is in `await websocket.receive_json()`; "closed" is the same
\* place right after a turn, before anything else has been received
Receiving ==
    /\ transport = "dialogue_ws" /\ connected
    /\ d_pc \in {"recv", "closed"}
    /\ msgs < MaxMsgs

\* what was sent since the message that followed the previous turn
Window == IF d_pc = "closed" THEN <<>> ELSE out

\* the previous turn's result and iterator are out of reach once the next
\* message is being handled
ClearTurn ==
    /\ calls' = <<>>
    /\ d_err' = "none"
    /\ it_pc' = "unstarted"
    /\ attempt' = 0
    /\ status_recv' = 0
    /\ sleeps' = <<>>
    /\ it_pos' = 0
    /\ delivered' = <<>>

\* the handling of an end_turn is over: back to receive_json
TurnOver ==
    /\ turns' = turns + 1
    /\ received' = <<>>
    /\ d_pc' = "closed"

\* an "audio" message: the decoded payload is appended to the buffer, a declared
\* format "wav" is noted, "buffering" is sent; a payload that cannot be decoded
\* is answered with "error" and changes nothing
WsReceiveAudio ==
    /\ Receiving
    /\ msgs' = msgs + 1
    /\ ClearTurn
    /\ d_pc' = "recv"
    /\ \E p \in Payloads, fmt \in {"wav", "unset"}, valid \in BOOLEAN :
        IF valid
        THEN /\ audio_format' = IF fmt = "wav" THEN "wav" ELSE audio_format
             /\ audio_buffer' = Append(audio_buffer, p)
             /\ received' = Append(received, p)
             /\ out' = Append(Window, "buffering")
        ELSE /\ out' = Append(Window, "error")
             /\ UNCHANGED <<audio_format, audio_buffer, received>>
    /\ UNCHANGED <<transport, form, gone_at, turn_at, synthVars, turns, http_status, connected, retries>>
    /\ UNCHANGED <<llmVars, auxVars>>

\* a "config" message is answered with "configured"; a "text" message is ignored
WsReceiveOther ==
    /\ Receiving
    /\ msgs' = msgs + 1
    /\ ClearTurn
    /\ d_pc' = "recv"
    /\ \E kind \in {"config", "text"} :
        out' = IF kind = "config" THEN Append(Window, "configured") ELSE Window
    /\ UNCHANGED <<transport, form, gone_at, turn_at, synthVars, audio_buffer, received, turns, audio_format,
                   http_status, connected, retries>>
    /\ UNCHANGED <<llmVars, auxVars>>

\* end_turn: under 100 buffered bytes it is refused with "error" and the buffer
\* and format are reset; otherwise "processing" is sent and WebM audio goes to
\* conversion first
WsEndTurn ==
    /\ Receiving
    /\ msgs' = msgs + 1
    /\ ClearTurn
    /\ turn_at' = Len(Window)
    /\ IF Size(audio_buffer) < MinAudioBytes
       THEN /\ out' = Append(Window, "error")
            /\ audio_buffer' = <<>>
            /\ audio_format' = "webm"
            /\ TurnOver
       ELSE /\ out' = Append(Window, "processing")
            /\ d_pc' = IF audio_format = "wav" THEN "stt" ELSE "convert"
            /\ UNCHANGED <<audio_buffer, audio_format, received, turns>>
    /\ UNCHANGED <<transport, form, gone_at, synthVars, http_status, connected, retries>>
    /\ UNCHANGED <<llmVars, auxVars>>

\* _convert_webm_to_wav returned: None is reported as an error and ends the turn
WsConverted ==
    /\ transport = "dialogue_ws" /\ connected /\ d_pc = "convert"
    /\ \E ok \in BOOLEAN :
        IF ok
        THEN /\ out' = Append(out, "processing")
             /\ d_pc' = "stt"
             /\ UNCHANGED <<audio_buffer, audio_format, received, turns>>
        ELSE /\ out' = Append(out, "error")
             /\ audio_buffer' = <<>>
             /\ audio_format' = "webm"
             /\ TurnOver
    /\ UNCHANGED <<transport, form, gone_at, turn_at, synthVars, msgs, calls, d_err, http_status, connected, itVars>>
    /\ UNCHANGED <<llmVars, auxVars>>

\* WsFailed that reports the error but keeps the buffered audio and its format
WsFailedKeepsBuffer ==
    /\ transport = "dialogue_ws" /\ connected /\ d_pc = "failed"
    /\ out' = Append(out, "error")
    /\ TurnOver
    /\ UNCHANGED <<transport, form, gone_at, turn_at, synthVars, audio_buffer, audio_format, msgs, calls, d_err,
                   http_status, connected, itVars>>
    /\ UNCHANGED <<llmVars, auxVars>>

\* WsFailed that goes on to the end of the turn's code and also sends "ready"
WsFailedThenReady ==
    /\ transport = "dialogue_ws" /\ connected /\ d_pc = "failed"
    /\ out' = out \o <<"error", "ready">>
    /\ audio_buffer' = <<>>
    /\ audio_format' = "webm"
    /\ TurnOver
    /\ UNCHANGED <<transport, form, gone_at, turn_at, synthVars, msgs, calls, d_err, http_status, connected, itVars>>
    /\ UNCHANGED <<llmVars, auxVars>>

\* `except Exception` around the turn: run_dialogue raised
WsFailed ==
    /\ transport = "dialogue_ws" /\ connected /\ d_pc = "failed"
    /\ out' = Append(out, "error")
    /\ audio_buffer' = <<>>
    /\ audio_format' = "webm"
    /\ TurnOver
    /\ UNCHANGED <<transport, form, gone_at, turn_at, synthVars, msgs, calls, d_err, http_status, connected, itVars>>
    /\ UNCHANGED <<llmVars, auxVars>>

\* the transcript message, then the assistant text message
WsSend ==
    /\ transport = "dialogue_ws" /\ connected
    /\ d_pc \in {"result", "emit_text"}
    /\ out' = Append(out, IF d_pc = "result" THEN "transcript" ELSE "text")
    /\ d_pc' = IF d_pc = "result" THEN "emit_text" ELSE "audio"
    /\ UNCHANGED <<transport, form, gone_at, synthVars, wsVars, calls, d_err, audio_format, http_status,
                   connected, itVars>>
    /\ UNCHANGED <<llmVars, auxVars>>

\* WsAudio that keeps taking chunks from the iterator after the client has gone
WsAudioKeepsPulling ==
    /\ transport = "dialogue_ws"
    /\ d_pc = "audio" /\ it_pc \in {"yield", "end", "raised"}
    /\ IF it_pc = "yield"
       THEN /\ out' = IF connected THEN Append(out, "audio") ELSE out
            /\ it_pc' = "body"
            /\ UNCHANGED <<d_pc, audio_format, audio_buffer, received, turns>>
       ELSE /\ out' = Append(out, IF it_pc = "end" THEN "ready" ELSE "error")
            /\ audio_buffer' = <<>>
            /\ audio_format' = "webm"
            /\ TurnOver
            /\ UNCHANGED it_pc
    /\ UNCHANGED <<transport, form, gone_at, turn_at, synthVars, msgs, calls, d_err, http_status, connected>>
    /\ UNCHANGED <<retries, attempt, status_recv, sleeps, it_pos, delivered>>
    /\ UNCHANGED <<llmVars, auxVars>>

\* one audio message per chunk, then the reset and "ready"; an exception from
\* the iterator is caught by `except Exception`: "error", then the reset
WsAudio ==
    /\ transport = "dialogue_ws" /\ connected
    /\ d_pc = "audio" /\ it_pc \in {"yield", "end", "raised"}
    /\ IF it_pc = "yield"
       THEN /\ out' = Append(out, "audio")
            /\ it_pc' = "body"
            /\ UNCHANGED <<d_pc, audio_format, audio_buffer, received, turns>>
       ELSE /\ out' = Append(out, IF it_pc = "end" THEN "ready" ELSE "error")
            /\ audio_buffer' = <<>>
            /\ audio_format' = "webm"
            /\ TurnOver
            /\ UNCHANGED it_pc
    /\ UNCHANGED <<transport, form, gone_at, turn_at, synthVars, msgs, calls, d_err, http_status, connected>>
    /\ UNCHANGED <<retries, attempt, status_recv, sleeps, it_pos, delivered>>
    /\ UNCHANGED <<llmVars, auxVars>>

(***************************************************************************)
(* POST /text-to-speech with stream=true, and WebSocket /text-to-speech/ws  *)
(***************************************************************************)
\* text_to_speech(): synthesize_stream is awaited and the SSE response starts
TextToSpeech ==
    /\ transport = "tts_sse" /\ d_pc = "start"
    /\ SynthesizeStream
    /\ http_status' = 200
    /\ d_pc' = "audio"
    /\ UNCHANGED <<transport, form, gone_at, synthVars, wsVars, d_err, out, audio_format, connected>>
    /\ UNCHANGED <<llmVars, auxVars>>

\* sse_iterator(): one audio_chunk event per chunk, then done; an exception from
\* the iterator leaves the generator without another event
SseIterator ==
    /\ transport = "tts_sse" /\ connected
    /\ d_pc = "audio" /\ it_pc \in {"yield", "end", "raised"}
    /\ CASE it_pc = "yield" ->
                /\ out' = Append(out, "audio_chunk")
                /\ it_pc' = "body"
                /\ UNCHANGED d_pc
         [] it_pc = "end" ->
                /\ out' = Append(out, "done")
                /\ d_pc' = "closed"
                /\ UNCHANGED it_pc
         [] it_pc = "raised" ->
                /\ d_pc' = "closed"
                /\ UNCHANGED <<out, it_pc>>
    /\ UNCHANGED <<transport, form, gone_at, synthVars, wsVars, calls, d_err, audio_format, http_status, connected>>
    /\ UNCHANGED <<retries, attempt, status_recv, sleeps, it_pos, delivered>>
    /\ UNCHANGED <<llmVars, auxVars>>

\* text_to_speech_ws(): synthesize_stream is awaited and the metadata event sent
TextToSpeechWs ==
    /\ transport = "tts_ws" /\ d_pc = "start"
    /\ SynthesizeStream
    /\ IF connected
       THEN out' = Append(out, "metadata") /\ d_pc' = "audio"
       ELSE d_pc' = "closed" /\ UNCHANGED out
    /\ UNCHANGED <<transport, form, gone_at, synthVars, wsVars, d_err, audio_format, http_status, connected>>
    /\ UNCHANGED <<llmVars, auxVars>>

\* one audio_chunk event per chunk, then done; the iterator's RuntimeError is
\* caught and reported as an error event
TtsWsAudio ==
    /\ transport = "tts_ws" /\ connected
    /\ d_pc = "audio" /\ it_pc \in {"yield", "end", "raised"}
    /\ CASE it_pc = "yield" ->
                /\ out' = Append(out, "audio_chunk")
                /\ it_pc' = "body"
                /\ UNCHANGED d_pc
         [] it_pc = "end" ->
                /\ out' = Append(out, "done")
                /\ d_pc' = "closed"
                /\ UNCHANGED it_pc
         [] it_pc = "raised" ->
                /\ out' = Append(out, "error")
                /\ d_pc' = "closed"
                /\ UNCHANGED it_pc
    /\ UNCHANGED <<transport, form, gone_at, synthVars, wsVars, calls, d_err, audio_format, http_status, connected>>
    /\ UNCHANGED <<retries, attempt, status_recv, sleeps, it_pos, delivered>>
    /\ UNCHANGED <<llmVars, auxVars>>

(***************************************************************************)
(* The client goes away                                                    *)
(***************************************************************************)
\* the client disconnects while its request is being served
Disconnect ==
    /\ connected /\ d_pc # "closed"
    /\ connected' = FALSE
    /\ gone_at' = Len(delivered)
    /\ UNCHANGED <<transport, form, synthVars, wsVars, d_pc, calls, d_err, out, audio_format, http_status, itVars>>
    /\ UNCHANGED <<llmVars, auxVars>>

\* a streaming HTTP response is cancelled once the client is gone
StreamCancelled ==
    /\ ~connected
    /\ transport \in {"dialogue_ndjson", "tts_sse"}
    /\ http_status = 200 /\ d_pc # "closed"
    /\ d_pc' = "closed"
    /\ UNCHANGED <<transport, form, gone_at, synthVars, wsVars, calls, d_err, out, audio_format, http_status, connected, itVars>>
    /\ UNCHANGED <<llmVars, auxVars>>

\* receive_json or send_json on a closed WebSocket raises: the handler leaves its
\* receive loop
WsSendFails ==
    /\ ~connected
    /\ transport \in {"dialogue_ws", "tts_ws"}
    /\ \/ transport = "dialogue_ws" /\ d_pc \in {"recv", "convert", "failed", "result", "emit_text"}
       \/ d_pc = "audio" /\ it_pc \in {"yield", "end", "raised"}
    /\ d_pc' = "closed"
    /\ UNCHANGED <<transport, form, gone_at, synthVars, wsVars, calls, d_err, out, audio_format, http_status, connected, itVars>>
    /\ UNCHANGED <<llmVars, auxVars>>

NextTTS ==
    \/ ItStart
    \/ ItResponse
    \/ ItErrorBody
    \/ ItBody
    \/ ItWake
    \/ RunSTT
    \/ RunLLM
    \/ RunTTS
    \/ Synthesize
    \/ Dialogue
    \/ DialogueFailed
    \/ DialogueResponse
    \/ DialogueStreamEmit
    \/ DialogueStreamAudio
    \/ WsReceiveAudio
    \/ WsReceiveOther
    \/ WsEndTurn
    \/ WsConverted
    \/ WsFailed
    \/ WsSend
    \/ WsAudio
    \/ TextToSpeech
    \/ SseIterator
    \/ TextToSpeechWs
    \/ TtsWsAudio
    \/ Disconnect
    \/ StreamCancelled
    \/ WsSendFails

SpecTTS == InitTTS /\ [][NextTTS]_vars

\* s is a prefix of t
IsPrefix(s, t) ==
    /\ Len(s) <= Len(t)
    /\ \A i \in 1..Len(s) : s[i] = t[i]

(***************************************************************************)
(* _apply_chat_template (api/v1/generation.py)                             *)
(***************************************************************************)
\* Strings are sequences of characters.  The marker "<start_of_turn>" is the
\* two characters "<", ">" in a row, so that a prompt can hold part of it;
\* "system\n", "user\n", "model\n" and "<end_of_turn>\n" are one character each.
Chars == {"<", ">", "x"}
start_of_turn == <<"<", ">">>
end_of_turn == <<"e">>
user_turn == start_of_turn \o <<"u">>

RECURSIVE Strings(_)
Strings(n) ==
    IF n = 0 THEN {<<>>}
    ELSE LET shorter == Strings(n - 1)
         IN shorter \cup {Append(s, c) : s \in shorter, c \in Chars}

\* positions at which sub occurs in s
Occurrences(s, sub) ==
    {i \in 1..(Len(s) - Len(sub) + 1) : SubSeq(s, i, i + Len(sub) - 1) = sub}

\* Python's `sub in s`
Contains(s, sub) == Occurrences(s, sub) # {}

\* Python's s.count(sub), for a sub that cannot overlap itself
Count(s, sub) == Cardinality(Occurrences(s, sub))

\* _apply_chat_template that wraps every prompt, templated or not
_apply_chat_template_always(prompt, system_prompt) ==
    [text |-> (IF system_prompt # <<>>
               THEN start_of_turn \o <<"s">> \o system_prompt \o end_of_turn
               ELSE <<>>)
              \o user_turn \o prompt \o end_of_turn
              \o start_of_turn \o <<"m">>,
     applied |-> TRUE]

\* _apply_chat_template(prompt, system_prompt) -> (formatted_prompt, applied)
_apply_chat_template(prompt, system_prompt) ==
    IF Contains(prompt, start_of_turn)
    THEN [text |-> prompt, applied |-> FALSE]
    ELSE [text |-> (IF system_prompt # <<>>
                    THEN start_of_turn \o <<"s">> \o system_prompt \o end_of_turn
                    ELSE <<>>)
                   \o user_turn \o prompt \o end_of_turn
                   \o start_of_turn \o <<"m">>,
          applied |-> TRUE]

\* a client posts a prompt and an optional system prompt
TplRequest ==
    /\ tpl_pc = "request"
    /\ tpl_prompt \in Strings(MaxLen)
    /\ tpl_system \in Strings(MaxLen - 1)
    /\ tpl_result = [text |-> <<>>, applied |-> FALSE]
    /\ tpl_rounds = 0

InitTpl == Constructed /\ IdleTTS /\ TplRequest /\ IdleErr /\ IdleStt /\ WorkerLoaded /\ IdleSse

\* generate_text / generate_text_stream: the template is applied to the payload
ApplyTemplate ==
    /\ tpl_pc = "request"
    /\ tpl_result' = _apply_chat_template(tpl_prompt, tpl_system)
    /\ tpl_pc' = "templated"
    /\ UNCHANGED <<tpl_prompt, tpl_system, tpl_rounds>>
    /\ UNCHANGED <<llmVars, ttsVars, errVars, sttVars, facVars, sseVars>>

\* the client posts the prompt it got templated, with any system prompt
PostAgain ==
    /\ tpl_pc = "templated" /\ tpl_rounds < MaxRounds
    /\ tpl_prompt' = tpl_result.text
    /\ tpl_system' \in Strings(1)
    /\ tpl_rounds' = tpl_rounds + 1
    /\ tpl_pc' = "request"
    /\ UNCHANGED tpl_result
    /\ UNCHANGED <<llmVars, ttsVars, errVars, sttVars, facVars, sseVars>>

NextTpl ==
    \/ ApplyTemplate
    \/ PostAgain

SpecTpl == InitTpl /\ [][NextTpl]_vars

(***************************************************************************)
(* ErrorHandlerMiddleware (middleware/error_handler.py)                    *)
(***************************************************************************)
\* texts an exception can be constructed with
Messages == {"m1", "m2", "m3"}

\* the classes of utils/exceptions.py, all direct subclasses of LLMServiceError
LLMServiceErrors ==
    {"ModelNotLoadedError", "GenerationError", "GenerationTimeoutError",
     "StreamCancelledError", "ValidationError", "LLMServiceError"}

\* error_code each constructor passes to LLMServiceError.__init__
ErrorCode(type) ==
    CASE type = "ModelNotLoadedError" -> "MODEL_NOT_LOADED"
      [] type = "GenerationError" -> "GENERATION_FAILED"
      [] type = "GenerationTimeoutError" -> "GENERATION_TIMEOUT"
      [] type = "StreamCancelledError" -> "STREAM_CANCELLED"
      [] type = "ValidationError" -> "VALIDATION_ERROR"
      [] OTHER -> "LLM_ERROR"

\* keys of the details dict each constructor can leave on the exception
DetailKeys(type) ==
    CASE type = "GenerationError" -> {{}, {"cause", "cause_type"}}
      [] type = "GenerationTimeoutError" -> {{"timeout_seconds"}}
      [] type = "ValidationError" -> {{}, {"field"}}
      [] OTHER -> {{}, {"context"}}

\* the exceptions call_next can raise: the service's own, and any other
Exceptions ==
    {[type |-> t, error_code |-> ErrorCode(t), message |-> m, details |-> d] :
        t \in LLMServiceErrors, m \in Messages, d \in UNION {DetailKeys(k) : k \in LLMServiceErrors}}
    \cup {[type |-> t, error_code |-> "none", message |-> m, details |-> {}] :
        t \in {"RuntimeError", "ValueError"}, m \in Messages}

\* _create_error_response: error and message always, details only when non-empty
_create_error_response(status_code, error_code, message, details) ==
    [status |-> status_code,
     fields |-> {"error", "message"} \cup (IF details # {} THEN {"details"} ELSE {}),
     error |-> error_code,
     message |-> message,
     details |-> details]

\* the response handle_exception builds without looking at the debug flag
error_response_verbose(exc, debug) ==
    IF exc.type \in LLMServiceErrors
    THEN _create_error_response(handle_exception(exc.type), exc.error_code,
                                exc.message, exc.details)
    ELSE _create_error_response(500, "INTERNAL_ERROR", "An internal error occurred",
                                {"type", "traceback"})

\* the response handle_exception builds for exc
error_response(exc, debug) ==
    IF exc.type \in LLMServiceErrors
    THEN _create_error_response(handle_exception(exc.type), exc.error_code,
                                exc.message, IF debug THEN exc.details ELSE {})
    ELSE _create_error_response(500, "INTERNAL_ERROR", "An internal error occurred",
                                IF debug THEN {"type", "traceback"} ELSE {})

\* call_next raised an exception in an application started with or without debug
ErrRaised ==
    /\ err_pc = "raised"
    /\ err_debug \in BOOLEAN
    /\ err_exc \in {e \in Exceptions : e.type \in LLMServiceErrors => e.details \in DetailKeys(e.type)}
    /\ err_response = NoResponse

InitErr == Constructed /\ IdleTTS /\ IdleTpl /\ ErrRaised /\ IdleStt /\ WorkerLoaded /\ IdleSse

\* dispatch: `except Exception as exc: return await self.handle_exception(request, exc)`
Dispatch ==
    /\ err_pc = "raised"
    /\ err_response' = error_response(err_exc, err_debug)
    /\ err_pc' = "responded"
    /\ UNCHANGED <<err_debug, err_exc>>
    /\ UNCHANGED <<llmVars, ttsVars, tplVars, sttVars, facVars, sseVars>>

NextErr == Dispatch

SpecErr == InitErr /\ [][NextErr]_vars

(***************************************************************************)
(* WhisperService.transcribe (services/whisper.py)                         *)
(***************************************************************************)
\* texts of a response, as sequences of characters
Words == {<<>>, <<"a">>, <<"b">>, <<"a", "b">>}

\* a segment of the response: its id (-1: the key is absent) and its text
RawSegments == [id : {-1, 7}, text : {<<>>, <<"a">>, <<"b">>}]

RECURSIVE SeqsUpTo(_, _)
SeqsUpTo(S, n) ==
    IF n = 0 THEN {<<>>}
    ELSE LET shorter == SeqsUpTo(S, n - 1)
         IN shorter \cup {Append(q, x) : q \in shorter, x \in S}

\* responses of the API: a dict / model object, with or without a "text" key,
\* or the bare string the text-like response formats return
Payloads200 ==
    {[shape |-> "object", has_text |-> h, text |-> w, segments |-> g] :
        h \in BOOLEAN, w \in Words, g \in SeqsUpTo(RawSegments, MaxSegs)}
    \cup {[shape |-> "str", has_text |-> FALSE, text |-> w, segments |-> <<>>] : w \in Words}

\* "".join(seg.text for seg in segments)
RECURSIVE JoinText(_)
JoinText(segments) ==
    IF segments = <<>> THEN <<>>
    ELSE segments[1].text \o JoinText(Tail(segments))

\* the concatenation in reverse order of the segments
RECURSIVE JoinTextReversed(_)
JoinTextReversed(segments) ==
    IF segments = <<>> THEN <<>>
    ELSE JoinTextReversed(Tail(segments)) \o segments[1].text

\* lines 157-185 with the segments' concatenation taking precedence over the raw text
NormaliseSegmentsFirst(payload) ==
    LET raw_text == IF payload.has_text THEN payload.text ELSE <<>>
        listed == [i \in 1..Len(payload.segments) |->
                     [id |-> IF payload.segments[i].id = -1 THEN i - 1
                             ELSE payload.segments[i].id,
                      text |-> payload.segments[i].text]]
        segments == IF listed = <<>> /\ raw_text # <<>>
                    THEN <<[id |-> 0, text |-> raw_text]>>
                    ELSE listed
    IN [text |-> IF JoinText(segments) # <<>> THEN JoinText(segments) ELSE raw_text,
        segments |-> segments]

\* lines 157-185: raw_text, the segments in the order listed (id defaulting to
\* the index), a single segment made of the raw text when none is listed, and
\* `text = raw_text if raw_text else "".join(...)`
Normalise(payload) ==
    LET raw_text == IF payload.has_text THEN payload.text ELSE <<>>
        listed == [i \in 1..Len(payload.segments) |->
                     [id |-> IF payload.segments[i].id = -1 THEN i - 1
                             ELSE payload.segments[i].id,
                      text |-> payload.segments[i].text]]
        segments == IF listed = <<>> /\ raw_text # <<>>
                    THEN <<[id |-> 0, text |-> raw_text]>>
                    ELSE listed
    IN [text |-> IF raw_text # <<>> THEN raw_text ELSE JoinText(segments),
        segments |-> segments]

\* exceptions the client's create() call can raise: the two kinds of
\* openai.APIError (no connection, status >= 400) and a plain Exception
APIErrors == {"APIConnectionError", "APIStatusError"}
CallFailures == APIErrors \cup {"Exception"}

\* `except OpenAIAPIError`: openai.APIError, or Exception when openai cannot be imported
Caught(exc) == ~stt_cfg.openai \/ exc \in APIErrors

\* a service in one of its configurations receives a transcribe call
SttCall ==
    /\ stt_pc = "call"
    /\ stt_cfg \in [enable_faster_whisper : BOOLEAN, client : BOOLEAN, openai : BOOLEAN]
    /\ stt_requests = 0
    /\ stt_error = "none"
    /\ stt_payload = NoPayload
    /\ stt_result = NoTranscription

InitStt == Constructed /\ IdleTTS /\ IdleTpl /\ IdleErr /\ SttCall /\ WorkerLoaded /\ IdleSse

\* TranscribeEnter that sends the request before it looks for the client
TranscribeEnterRequestsFirst ==
    /\ stt_pc = "call"
    /\ IF stt_cfg.enable_faster_whisper
       THEN /\ stt_pc' = "local"
            /\ UNCHANGED <<stt_error, stt_requests>>
       ELSE /\ stt_requests' = stt_requests + 1
            /\ IF ~stt_cfg.client
               THEN /\ stt_error' = "RuntimeError: not configured"
                    /\ stt_pc' = "done"
               ELSE /\ stt_pc' = "remote"
                    /\ UNCHANGED stt_error
    /\ UNCHANGED <<stt_cfg, stt_payload, stt_result>>
    /\ UNCHANGED <<llmVars, ttsVars, tplVars, errVars, facVars, sseVars>>

\* transcribe(): the local path if enabled, else the client test, else the request
TranscribeEnter ==
    /\ stt_pc = "call"
    /\ IF stt_cfg.enable_faster_whisper
       THEN /\ stt_pc' = "local"
            /\ UNCHANGED <<stt_error, stt_requests>>
       ELSE IF ~stt_cfg.client
       THEN /\ stt_error' = "RuntimeError: not configured"
            /\ stt_pc' = "done"
            /\ UNCHANGED stt_requests
       ELSE /\ stt_requests' = stt_requests + 1
            /\ stt_pc' = "remote"
            /\ UNCHANGED stt_error
    /\ UNCHANGED <<stt_cfg, stt_payload, stt_result>>
    /\ UNCHANGED <<llmVars, ttsVars, tplVars, errVars, facVars, sseVars>>

\* _transcribe_with_faster_whisper: the segments of the local model, joined by
\* from_segments; its exceptions are re-raised as they are
TranscribeLocal ==
    /\ stt_pc = "local"
    /\ \/ \E g \in SeqsUpTo(RawSegments, MaxSegs) :
            /\ stt_result' = [text |-> JoinText(g), segments |-> g]
            /\ UNCHANGED stt_error
       \/ /\ stt_error' = "LocalModelError"
          /\ UNCHANGED stt_result
    /\ stt_pc' = "done"
    /\ UNCHANGED <<stt_cfg, stt_requests, stt_payload>>
    /\ UNCHANGED <<llmVars, ttsVars, tplVars, errVars, facVars, sseVars>>

\* `await self._client.audio.transcriptions.create(...)` raises
RemoteFails ==
    /\ stt_pc = "remote"
    /\ \E exc \in CallFailures :
        stt_error' = IF Caught(exc) THEN "RuntimeError: transcription failed" ELSE exc
    /\ stt_pc' = "done"
    /\ UNCHANGED <<stt_cfg, stt_requests, stt_payload, stt_result>>
    /\ UNCHANGED <<llmVars, ttsVars, tplVars, errVars, facVars, sseVars>>

\* the call returns: `response if isinstance(response, dict) else
\* response.model_dump()`, then the normalisation
RemoteResponds ==
    /\ stt_pc = "remote"
    /\ \E payload \in Payloads200 :
        /\ stt_payload' = payload
        /\ IF payload.shape = "str"
           THEN /\ stt_error' = "AttributeError"
                /\ UNCHANGED stt_result
           ELSE /\ stt_result' = Normalise(payload)
                /\ UNCHANGED stt_error
    /\ stt_pc' = "done"
    /\ UNCHANGED <<stt_cfg, stt_requests>>
    /\ UNCHANGED <<llmVars, ttsVars, tplVars, errVars, facVars, sseVars>>

NextStt ==
    \/ TranscribeEnter
    \/ TranscribeLocal
    \/ RemoteFails
    \/ RemoteResponds

SpecStt == InitStt /\ [][NextStt]_vars

(***************************************************************************)
(* get_service_factory (agents/worker.py), ServiceFactory (voice_agent.py)  *)
(***************************************************************************)
InitFac == Constructed /\ IdleTTS /\ IdleTpl /\ IdleErr /\ IdleStt /\ WorkerLoaded /\ IdleSse

\* get_service_factory() up to its first await: a factory that exists is
\* returned at once; otherwise one is created, stored in the global, and its
\* startup() creates the three services and awaits their startup
GetServiceFactory(j) ==
    /\ job_pc[j] = "idle"
    /\ IF service_factory = "None"
       THEN /\ service_factory' = "Factory"
            /\ service_sets' = service_sets + 1
            /\ job_pc' = [job_pc EXCEPT ![j] = "starting"]
       ELSE /\ job_pc' = [job_pc EXCEPT ![j] = "has_factory"]
            /\ UNCHANGED <<service_factory, service_sets>>
    /\ UNCHANGED <<started, job_result>>
    /\ UNCHANGED <<llmVars, ttsVars, tplVars, errVars, sttVars, sseVars>>

\* asyncio.gather of the three startups returns (`_started = True`, the factory
\* is returned) or raises (the exception leaves get_service_factory)
FactoryStartupDone(j) ==
    /\ job_pc[j] = "starting"
    /\ \E ok \in BOOLEAN :
        IF ok
        THEN /\ started' = TRUE
             /\ job_pc' = [job_pc EXCEPT ![j] = "has_factory"]
             /\ UNCHANGED job_result
        ELSE /\ job_pc' = [job_pc EXCEPT ![j] = "done"]
             /\ job_result' = [job_result EXCEPT ![j] = "StartupError"]
             /\ UNCHANGED started
    /\ UNCHANGED <<service_factory, service_sets>>
    /\ UNCHANGED <<llmVars, ttsVars, tplVars, errVars, sttVars, sseVars>>

\* entrypoint: factory.create_agent(...) on the factory it was given
CreateAgent(j) ==
    /\ job_pc[j] = "has_factory"
    /\ job_pc' = [job_pc EXCEPT ![j] = "done"]
    /\ job_result' = [job_result EXCEPT ![j] =
            IF started THEN "agent" ELSE "RuntimeError: Services not started"]
    /\ UNCHANGED <<service_factory, started, service_sets>>
    /\ UNCHANGED <<llmVars, ttsVars, tplVars, errVars, sttVars, sseVars>>

NextFac ==
    \/ \E j \in Jobs : GetServiceFactory(j)
    \/ \E j \in Jobs : FactoryStartupDone(j)
    \/ \E j \in Jobs : CreateAgent(j)

SpecFac == InitFac /\ [][NextFac]_vars

(***************************************************************************)
(* create_token_stream (utils/streaming.py) under generate_text_stream's   *)
(* sse_generator (api/v1/generation.py)                                     *)
(***************************************************************************)
\* an SSE event; total_tokens is the field of a usage event, 0 elsewhere
Event(kind) == [event |-> kind, total_tokens |-> 0]
Usage(n) == [event |-> "usage", total_tokens |-> n]

\* total_tokens of a chunk's own "usage" dict: prompt plus completion tokens
ChunkUsageTotal == 9

\* chunks of the llama.cpp stream: with or without a token text, a
\* finish_reason, and a usage dict that has its own total_tokens
Chunks == [text : BOOLEAN, finish_reason : BOOLEAN, usage : BOOLEAN]

\* exceptions generate_stream raises into the conversion
StreamFailures == {"GenerationError", "StreamCancelledError", "ModelNotLoadedError"}

\* the response starts iterating sse_generator
SseStart ==
    /\ sse_pc = "loop"
    /\ sse_pulled = 0
    /\ total_tokens = 0
    /\ sse_exc = "none"
    /\ sse_events = <<>>

InitSse == Constructed /\ IdleTTS /\ IdleTpl /\ IdleErr /\ IdleStt /\ WorkerLoaded /\ SseStart

\* `async for chunk in llm_stream`: a chunk (text event for a non-empty token;
\* on finish_reason the usage event, updated from the chunk's usage, and
\* break), the end of the stream, or an exception (error event, then re-raise)
TokenStreamNext ==
    /\ sse_pc = "loop"
    /\ \/ \E chunk \in Chunks :
            LET n == IF chunk.text THEN total_tokens + 1 ELSE total_tokens
                texts == IF chunk.text THEN <<Event("text")>> ELSE <<>>
                usage == IF chunk.finish_reason
                         THEN <<Usage(IF chunk.usage THEN ChunkUsageTotal ELSE n)>>
                         ELSE <<>>
            IN /\ sse_pulled < MaxStream
               /\ sse_pulled' = sse_pulled + 1
               /\ total_tokens' = n
               /\ sse_events' = sse_events \o texts \o usage
               /\ sse_pc' = IF chunk.finish_reason THEN "done_event" ELSE "loop"
               /\ UNCHANGED sse_exc
       \/ /\ sse_pc' = "done_event"
          /\ UNCHANGED <<sse_pulled, total_tokens, sse_exc, sse_events>>
       \/ \E exc \in StreamFailures :
            /\ sse_exc' = exc
            /\ sse_events' = Append(sse_events, Event("error"))
            /\ sse_pc' = "reraise"
            /\ UNCHANGED <<sse_pulled, total_tokens>>
    /\ UNCHANGED <<llmVars, ttsVars, tplVars, errVars, sttVars, facVars>>

\* after the loop: `yield SSEFormatter.format_done()`
TokenStreamDone ==
    /\ sse_pc = "done_event"
    /\ sse_events' = Append(sse_events, Event("done"))
    /\ sse_pc' = "finished"
    /\ UNCHANGED <<sse_pulled, total_tokens, sse_exc>>
    /\ UNCHANGED <<llmVars, ttsVars, tplVars, errVars, sttVars, facVars>>

\* create_token_stream re-raises; sse_generator's except clauses yield an
\* error event of their own and end the stream
SseGeneratorExcept ==
    /\ sse_pc = "reraise"
    /\ sse_events' = Append(sse_events, Event("error"))
    /\ sse_pc' = "finished"
    /\ UNCHANGED <<sse_pulled, total_tokens, sse_exc>>
    /\ UNCHANGED <<llmVars, ttsVars, tplVars, errVars, sttVars, facVars>>

NextSse ==
    \/ TokenStreamNext
    \/ TokenStreamDone
    \/ SseGeneratorExcept

SpecSse == InitSse /\ [][NextSse]_vars

(***************************************************************************)
(* Properties of LLMService                                                *)
(***************************************************************************)

\* C1: as long as no shutdown released a model, concurrent startup()/lazy-load
\* triggers run the download-and-load once per failed attempt plus at most once
\* more (so exactly once when the load succeeds), and every caller to whom
\* startup returned normally finds the model loaded.
C1_SingleLoad ==
    releases = 0 =>
        /\ downloads <= failures + 1
        /\ loads <= downloads
        /\ \A t \in Tasks :
            (op[t] = "startup" /\ result[t] = "ok") \/ lazy[t] = "ok"
                => llm = "Model" /\ loads >= 1

C1_Witness ==
    /\ \A t \in Tasks : (op[t] = "startup" /\ result[t] = "ok") \/ lazy[t] = "ok"
    /\ downloads = 1 /\ loads = 1 /\ failures = 0 /\ releases = 0

\* C7: once a cancelled generate_stream has raised StreamCancelledError, the
\* synchronous generator is closed (or was never started, or had finished):
\* none is left open or executing in a worker thread.
C7_CancelClosesGenerator ==
    \A t \in Tasks :
        (pc[t] = "done" /\ result[t] = "StreamCancelledError")
            => gen[t] \in {"none", "closed", "exhausted", "failed"}

\* C9: a failing download or load makes startup raise ModelNotLoadedError and
\* leaves the service UNLOADED (no model, loading flag cleared, lock free), and
\* any startup entered while no model is loaded starts a fresh download.
C9_FailureResetsAndRetries ==
    [][ /\ \A t \in Tasks :
            (result[t] = "none" /\ result'[t] = "ModelNotLoadedError")
                => /\ failures' = failures + 1
                   /\ llm' = "None" /\ ~is_ready' /\ ~is_loading' /\ load_lock' = 0
        /\ failures' # failures
                => \E t \in Tasks : result[t] = "none" /\ result'[t] = "ModelNotLoadedError"
        /\ \A t \in Tasks :
            (pc[t] = "s_lock" /\ pc'[t] # "s_lock" /\ llm = "None")
                => pc'[t] = "s_download" /\ downloads' = downloads + 1
      ]_vars

C9_Witness ==
    /\ \E t \in Tasks : result[t] = "ModelNotLoadedError"
    /\ failures = 1 /\ downloads = 2 /\ llm = "Model"

\* C10: a generate/generate_stream call that found no model makes no inference
\* call while its lazy load is pending; if the load failed it ended with
\* ModelNotLoadedError without any inference call; and generate only ever
\* dispatches inference on a loaded model.
C10_LazyLoadBeforeInference ==
    \A t \in Tasks :
        /\ lazy[t] = "pending" => callee[t] = "no"
        /\ lazy[t] = "failed"
              => callee[t] = "no" /\ pc[t] = "done" /\ result[t] = "ModelNotLoadedError"
        /\ (op[t] = "generate" /\ callee[t] # "no") => callee[t] = "Model"

C10_Witness ==
    \E t1, t2 \in Tasks :
        /\ op[t1] = "generate" /\ lazy[t1] = "failed"
        /\ op[t2] = "generate" /\ lazy[t2] = "ok" /\ callee[t2] = "Model"

C12_FailureWrappedWithCause ==
    \A t \in Tasks :
        /\ (pc[t] = "done" /\ raised[t] # "none"
                /\ result[t] \notin {"GenerationTimeoutError", "StreamCancelledError"})
            => result[t] = "GenerationError" /\ cause[t] = raised[t]
        /\ result[t] = "GenerationError"
            => raised[t] # "none" /\ cause[t] = raised[t]
        /\ result[t] \notin {"EngineError", "TypeError"}
        /\ result[t] = "AttributeError" => raised[t] = "none" /\ callee[t] = "no"

C12_Witness ==
    \E t, u \in Tasks :
        /\ op[t] = "generate" /\ result[t] = "GenerationError" /\ cause[t] = "EngineError"
        /\ op[u] = "generate_stream" /\ result[u] = "GenerationError"
        /\ cause[u] = "EngineError" /\ yielded[u] # <<>>

\* C13: the chunks generate_stream has yielded are always the chunks the model's
\* generator produced, in the same order, less at most the one still on its way
\* to the consumer; when the stream has been consumed to its end the two
\* sequences are equal, each chunk once.
C13_StreamYieldsProducedChunks ==
    \A t \in Tasks :
        /\ IsPrefix(yielded[t], produced[t])
        /\ Len(produced[t]) <= Len(yielded[t]) + 1
        /\ \A i, j \in 1..Len(yielded[t]) : i # j => yielded[t][i] # yielded[t][j]
        /\ (op[t] = "generate_stream" /\ (result[t] = "ok" \/ exit[t] = "ok"))
                => yielded[t] = produced[t]
        /\ pc[t] = "st_yield" => yielded[t] = produced[t] /\ yielded[t] # <<>>

C13_Witness ==
    \E t \in Tasks :
        /\ op[t] = "generate_stream" /\ result[t] = "ok"
        /\ produced[t] = <<1, 2>> /\ yielded[t] = <<1, 2>>

\* shutdown() of task t returns in this step
ShutdownCompletes(t) ==
    op[t] = "shutdown" /\ pc[t] # "done" /\ pc'[t] = "done" /\ result'[t] = "ok"

\* the part of C20 about the state a completed shutdown leaves, and the startup after it
C20_ShutdownUnloads ==
    /\ [][\A t \in Tasks : ShutdownCompletes(t)
            => /\ ~is_ready' /\ model' = "ModelNotLoadedError"
               /\ model_path' = "None"]_vars
    /\ [][\A t \in Tasks : pc[t] = "s_lock" /\ pc'[t] # "s_lock" /\ llm = "None"
            => pc'[t] = "s_download" /\ downloads' = downloads + 1]_vars

\* C20: a completed shutdown leaves the service unloaded whatever it was before
\* (is_ready false, the model accessor raising ModelNotLoadedError, the model
\* path cleared), the next startup loads the model again, and the accessor
\* raises ModelNotLoadedError exactly when no model is loaded.
C20_UnloadedAfterShutdown ==
    /\ C20_ShutdownUnloads
    /\ [](model = "ModelNotLoadedError" <=> ~is_ready)

\* C27: at every moment, also while a shutdown on another task has its
\* release running, reading the model accessor gives the model or raises
\* ModelNotLoadedError (the attribute behind is_ready can be read), and no
\* generate or generate_stream call ends with an AttributeError.
C27_ReadableDuringShutdown ==
    /\ llm # "Deleted"
    /\ model \in {"Model", "ModelNotLoadedError"}
    /\ \A t \in Tasks :
        op[t] \in {"generate", "generate_stream"}
            => result[t] # "AttributeError" /\ cause[t] # "AttributeError"

\* C18: every generation request whose adapter call failed is answered with
\* the status of the failure's kind: 503 for ModelNotLoadedError, 504 for
\* GenerationTimeoutError, 499 for StreamCancelledError, 500 for GenerationError.
C18_StatusOfFailureKind ==
    \A t \in Tasks :
        (/\ pc[t] = "done"
         /\ op[t] \in {"generate", "generate_stream"}
         /\ result[t] \in {"ModelNotLoadedError", "GenerationTimeoutError",
                           "StreamCancelledError", "GenerationError"})
            => HttpStatus(t) = handle_exception(result[t])

(***************************************************************************)
(* Properties of the streaming synthesis iterator and of the transports    *)
(***************************************************************************)

\* C2 as stated: with retry limit N >= 1 the iterator makes at most N HTTP
\* attempts in total.
C2_AtMostNAttempts ==
    retries >= 1 => attempt <= retries

\* C2: with retry limit N the iterator makes at most N + 1 HTTP attempts; when
\* every attempt failed at network level it raises on attempt N + 1 after N
\* backoff sleeps; when it completes, it does so on the attempt that follows
\* the last sleep (fail, fail, succeed is 3 attempts).
C2_BoundedAttempts ==
    /\ attempt <= retries + 1
    /\ Len(sleeps) <= retries
    /\ (it_pc = "raised" /\ status_recv = 0)
            => attempt = retries + 1 /\ Len(sleeps) = retries
    /\ it_pc = "end" => attempt = Len(sleeps) + 1

C2_Witness ==
    /\ retries = 2 /\ status_recv = 0
    /\ it_pc = "end" /\ attempt = 3 /\ Len(sleeps) = 2
    /\ delivered # <<>>

\* C3: once an attempt has received a status >= 400 the iterator is reading the
\* error body or has raised, on that same attempt: no later attempt is made and
\* no backoff is slept after it.
C3_StatusErrorIsFatal ==
    status_recv > 0 =>
        /\ attempt = status_recv
        /\ it_pc \in {"error_body", "raised"}
        /\ Len(sleeps) = status_recv - 1

\* the kinds of s follow metadata, transcript, assistant_text, audio_chunk*,
\* with done allowed only as the last one
StreamOrder(s) ==
    \A i \in 1..Len(s) :
        /\ i = 1 => s[i] = "metadata"
        /\ i = 2 => s[i] = "transcript"
        /\ i = 3 => s[i] = "assistant_text"
        /\ i > 3 => s[i] = "audio_chunk" \/ (s[i] = "done" /\ i = Len(s))

C5_SttFailureFailsFast ==
    d_err = "stt" =>
        /\ calls = <<"stt">>
        /\ d_pc \in {"failed", "closed"}
        /\ it_pc = "unstarted"
        /\ \A i \in 1..Len(out) : out[i] \in {"buffering", "configured", "processing", "error"}
        /\ (d_pc = "closed" /\ transport \in HttpTransports)
                => http_status \in {500, 503} /\ out = <<>>
        /\ (d_pc = "closed" /\ transport = "dialogue_ws" /\ connected)
                => out[Len(out)] = "error"

C5_Witness ==
    /\ d_err = "stt" /\ d_pc = "closed" /\ calls = <<"stt">>
    /\ transport = "dialogue_ndjson" /\ http_status = 503

\* the synthesis stage of a dialogue turn has failed
TtsFailed ==
    /\ transport \in DialogueTransports
    /\ d_err = "tts" \/ it_pc = "raised"

\* C6: when the synthesis stage of a dialogue turn fails, the calls made are
\* exactly STT, LLM, TTS in that order; in the streaming transports the
\* transcript and reply-text messages were sent before the failure, after the
\* turn's "processing" and with no error message in between; and no step of a
\* request or turn takes back a message already sent in it.
C6_TtsFailureKeepsEarlierResults ==
    /\ [](TtsFailed =>
            /\ calls = <<"stt", "llm", "tts">>
            /\ transport = "dialogue_ndjson"
                    => Len(out) >= 3 /\ out[2] = "transcript" /\ out[3] = "assistant_text"
            /\ transport = "dialogue_ws"
                    => \E p, i, j \in 1..Len(out) :
                            /\ p < i /\ i < j
                            /\ out[p] = "processing" /\ out[i] = "transcript" /\ out[j] = "text"
                            /\ \A k \in p..j : out[k] # "error")
    /\ [][d_pc # "closed" => IsPrefix(out, out')]_vars

C6_Witness ==
    /\ transport = "dialogue_ws" /\ it_pc = "raised" /\ d_pc = "closed"
    /\ calls = <<"stt", "llm", "tts">>
    /\ out[Len(out)] = "error"
    /\ \E i \in 1..Len(out) : out[i] = "text"

\* C8: in every audio streaming transport, when the synthesis iterator raised
\* after streaming began and the handler finished with the client still
\* connected, the last thing sent is an error event.
C8_ErrorEventOnFailure ==
    (it_pc = "raised" /\ d_pc = "closed" /\ connected)
        => out # <<>> /\ out[Len(out)] = "error"

\* the last adapter call the orchestrator or handler made
LastCall == IF calls = <<>> THEN "none" ELSE calls[Len(calls)]

\* C14: the step in which synthesize_stream is called makes no HTTP attempt and
\* leaves the iterator unstarted; an HTTP attempt exists only once the handler
\* is in its audio loop and has advanced the iterator; and by then the stream's
\* metadata has already gone to the client (the metadata line or event, or the
\* response headers of the SSE stream).
C14_NoRequestBeforeIteration ==
    /\ [](/\ it_pc = "unstarted" <=> attempt = 0
          /\ attempt = 0 => delivered = <<>> /\ sleeps = <<>>
          /\ attempt > 0 =>
                /\ LastCall = "tts" /\ d_pc \in {"audio", "closed"}
                /\ transport \in {"dialogue_ndjson", "tts_ws"}
                        => out # <<>> /\ out[1] = "metadata"
                /\ transport = "tts_sse" => http_status = 200)
    /\ [][(calls' = Append(calls, "tts") /\ transport # "dialogue_json")
            => /\ attempt' = 0 /\ it_pc' = "unstarted"
               /\ UNCHANGED itVars]_vars

C14_Witness ==
    /\ transport = "tts_ws" /\ d_pc = "audio"
    /\ calls = <<"tts">> /\ out = <<"metadata">>
    /\ it_pc = "unstarted" /\ attempt = 0

\* C15: a blocking synthesize call has issued exactly one HTTP POST once it is
\* over, whatever the outcome, and never more than one; the iterator of the
\* streaming path is not involved; its failure carries the response text after
\* a 4xx/5xx response and no response text otherwise.
C15_BlockingSynthesizeOnePost ==
    /\ [](/\ posts <= 1
          /\ posts = 1 <=> (transport = "dialogue_json" /\ d_pc \in {"result", "failed", "closed"}
                                /\ LastCall = "tts")
          /\ posts = 1 => attempt = 0 /\ sleeps = <<>>
          /\ d_msg # "none" <=> (posts = 1 /\ d_err = "tts"))
    /\ [][d_pc = "synthesize" /\ d_pc' # "synthesize"
            => /\ posts' = posts + 1
               /\ d_pc' \in {"result", "failed"}
               /\ d_pc' = "failed" => d_err' = "tts" /\ d_msg' \in {"body", "generic"}]_vars

C15_Witness ==
    /\ transport = "dialogue_json" /\ d_pc = "closed"
    /\ posts = 1 /\ d_err = "tts" /\ d_msg = "body" /\ http_status = 503

\* C16: in a dialogue WebSocket session the buffer always holds exactly the
\* payloads of the audio messages accepted since the last turn ended, in their
\* order; every step that ends the handling of an end_turn leaves it empty with
\* the format back to "webm"; and so they are whenever the handler waits for
\* the message that follows a turn.
C16_BufferPerTurn ==
    /\ [](transport = "dialogue_ws" =>
            /\ audio_buffer = received
            /\ (d_pc = "closed" /\ connected)
                    => audio_buffer = <<>> /\ audio_format = "webm")
    /\ [][turns' # turns => audio_buffer' = <<>> /\ audio_format' = "webm"]_vars

C16_Witness ==
    /\ transport = "dialogue_ws" /\ d_pc = "recv" /\ connected
    /\ turns = 1 /\ msgs = 3
    /\ audio_buffer = <<60>> /\ audio_format = "wav"

\* the override field is not valid JSON or is not a JSON object
NotAJsonObject(raw_value) == raw_value \in {"empty", "null", "array", "malformed"}

\* the request was answered 400 by the handler's own validation
Rejected == transport \in {"dialogue_json", "dialogue_ndjson"} /\ http_status = 400

\* C17 as stated: every dialogue request whose audio is empty or one of whose
\* override fields is not valid JSON or not a JSON object is answered 400.
C17_RejectsEveryNonObject ==
    (form # NoForm /\ (\/ form.audio = "empty"
                       \/ NotAJsonObject(form.generation_config)
                       \/ NotAJsonObject(form.synthesis_config)))
        => Rejected

\* C17: a dialogue request is answered 400, with no adapter call and nothing
\* else done for it, exactly when its audio is empty or an override field is
\* text that is not JSON or a JSON value that is not an object; a field that is
\* left out, empty or the literal null counts as no overrides and is accepted.
C17_BadRequestBeforePipeline ==
    form # NoForm =>
        /\ Rejected <=> \/ form.audio = "empty"
                        \/ form.generation_config \in {"array", "malformed"}
                        \/ form.synthesis_config \in {"array", "malformed"}
        /\ Rejected => /\ calls = <<>> /\ d_pc = "closed" /\ out = <<>>
                       /\ posts = 0 /\ attempt = 0 /\ d_err = "none"
        /\ ~Rejected => d_pc # "start"

C17_Witness ==
    /\ Rejected /\ calls = <<>>
    /\ form.audio = "bytes"
    /\ form.generation_config = "null"
    /\ form.synthesis_config = "malformed"

\* C19: in every transport that streams audio, once the client has disconnected
\* the iterator yields at most the one chunk that was on its way: the handler
\* takes no chunk from it after that, and nothing more is sent.
C19_StopsPullingAfterDisconnect ==
    /\ [](~connected /\ transport \in StreamingTransports
            => /\ Len(delivered) <= gone_at + 1
               /\ Len(delivered) = gone_at + 1 => it_pc = "yield")
    /\ [][~connected /\ transport \in StreamingTransports => out' = out]_vars

C19_Witness ==
    /\ ~connected /\ d_pc = "closed"
    /\ transport \in {"dialogue_ndjson", "dialogue_ws"}
    /\ gone_at = 1 /\ Len(delivered) = 2 /\ it_pc = "yield"

\* C21: the delay slept after the k-th failed attempt is min(2^k, 10) seconds:
\* the delays never decrease from one retry to the next, none exceeds 10, and
\* the attempt that exhausts the budget is followed by no sleep.
C21_BackoffCapped ==
    /\ \A k \in 1..Len(sleeps) :
        /\ sleeps[k] = (IF 2^k <= 10 THEN 2^k ELSE 10)
        /\ sleeps[k] <= 10
        /\ k > 1 => sleeps[k - 1] <= sleeps[k]
    /\ it_pc = "sleep" => Len(sleeps) = attempt
    /\ (it_pc = "raised" /\ status_recv = 0) => Len(sleeps) = attempt - 1

C21_Witness ==
    /\ it_pc = "raised" /\ status_recv = 0
    /\ attempt = 5 /\ sleeps = <<2, 4, 8, 10>>

\* C26: the chunks one iterator delivers are the chunks of a single HTTP
\* response, each once and in order: chunk i of what the consumer received is
\* chunk i of a response, also after an attempt failed half-way and was retried.
C26_NoChunkTwice ==
    \A i \in 1..Len(delivered) : delivered[i] = i

\* what the dialogue WebSocket has sent since the last end_turn was received
Answer == SubSeq(out, turn_at + 1, Len(out))

\* place of a message kind in the answer to an end_turn
Rank(kind) ==
    CASE kind = "processing" -> 0
      [] kind = "transcript" -> 1
      [] kind = "text" -> 2
      [] kind = "audio" -> 3
      [] kind \in {"ready", "error"} -> 4
      [] OTHER -> 5

\* the handling of an end_turn has just ended and nothing was received since
TurnDone == transport = "dialogue_ws" /\ connected /\ d_pc = "closed" /\ turns > 0

\* C28: in a dialogue WebSocket session the answer to an end_turn ends with its
\* only terminal message, "ready" if the turn succeeded and "error" if it
\* failed; transcript, text and audio messages occur only in such an answer,
\* after "processing", in that order, transcript and text once each; and after
\* either outcome the handler is receiving again.
C28_OneTerminalPerTurn ==
    transport = "dialogue_ws" =>
        /\ \A i \in 1..turn_at : i <= Len(out) => Rank(out[i]) = 5 \/ out[i] = "error"
        /\ d_pc \notin {"recv", "closed"}
            => /\ Answer # <<>> /\ Answer[1] = "processing"
               /\ \A i \in 1..Len(Answer) : Rank(Answer[i]) < 4
        /\ (d_pc \notin {"recv", "closed"} \/ TurnDone)
            => /\ \A i, j \in 1..Len(Answer) : i < j => Rank(Answer[i]) <= Rank(Answer[j])
               /\ \A i, j \in 1..Len(Answer) :
                    (i < j /\ Answer[i] = Answer[j]) => Answer[i] \in {"processing", "audio"}
               /\ \A i \in 1..Len(Answer) : Answer[i] = "text" => i > 1 /\ Answer[i - 1] = "transcript"
               /\ \A i \in 1..Len(Answer) : Rank(Answer[i]) \in 1..3 => Answer[1] = "processing"
        /\ TurnDone
            => /\ Cardinality({i \in 1..Len(Answer) : Rank(Answer[i]) = 4}) = 1
               /\ Rank(Answer[Len(Answer)]) = 4
               /\ Answer[Len(Answer)] = "ready"
                    <=> (d_err = "none" /\ it_pc = "end" /\ calls = <<"stt", "llm", "tts">>)
               /\ Answer[Len(Answer)] = "ready" => Len(Answer) >= 4 /\ Answer[Len(Answer) - 1] \in {"text", "audio"}
               /\ msgs < MaxMsgs => Receiving

C28_Witness ==
    /\ TurnDone /\ turns = 2 /\ msgs = 3
    /\ Answer[Len(Answer)] = "ready"
    /\ \E i \in 1..Len(Answer) : Answer[i] = "audio"

C28_WitnessFailed ==
    /\ TurnDone /\ turns = 1 /\ msgs = 2
    /\ Answer[Len(Answer)] = "error" /\ Len(Answer) > 3
    /\ Receiving

(***************************************************************************)
(* Properties of the chat template                                         *)
(***************************************************************************)
\* C22: a prompt that already contains the turn marker is returned unchanged
\* and reported as not templated, whatever the system prompt, with as many
\* user-turn markers as before; so a prompt that went through the template
\* once comes back unchanged when posted again.
C22_TemplateIdempotent ==
    tpl_pc = "templated" =>
        /\ Contains(tpl_prompt, start_of_turn)
            => /\ tpl_result = [text |-> tpl_prompt, applied |-> FALSE]
               /\ Count(tpl_result.text, user_turn) = Count(tpl_prompt, user_turn)
        /\ tpl_rounds > 0 => tpl_result.text = tpl_prompt
        /\ Contains(tpl_result.text, start_of_turn)

C22_Witness ==
    /\ tpl_pc = "templated" /\ tpl_rounds = 2
    /\ tpl_system # <<>>
    /\ Count(tpl_result.text, user_turn) = 1
    /\ Len(tpl_result.text) > Len(user_turn) + MaxLen

(***************************************************************************)
(* Properties of the error middleware                                      *)
(***************************************************************************)
\* C23: with debug off the response to any exception holds exactly an error
\* code and a message: no details field, so no traceback, exception type or
\* constructor details; an exception that is not one of the service's own is
\* answered 500 INTERNAL_ERROR with the same message whatever it carried.
C23_NoLeakWithoutDebug ==
    (err_pc = "responded" /\ ~err_debug) =>
        /\ err_response.fields = {"error", "message"}
        /\ err_response.details = {}
        /\ err_exc.type \in LLMServiceErrors
            => /\ err_response.error = ErrorCode(err_exc.type)
               /\ err_response.message = err_exc.message
        /\ err_exc.type \notin LLMServiceErrors
            => /\ err_response.status = 500
               /\ err_response.error = "INTERNAL_ERROR"
               /\ err_response.message = "An internal error occurred"

C23_Witness ==
    /\ err_pc = "responded" /\ ~err_debug
    /\ err_exc.type = "RuntimeError" /\ err_exc.message = "m2"
    /\ err_response.status = 500

(***************************************************************************)
(* Properties of WhisperService.transcribe                                 *)
(***************************************************************************)
\* the remote call of this transcribe raised
RemoteCallFailed ==
    stt_pc = "done" /\ stt_requests = 1 /\ stt_payload = NoPayload

C24_WitnessWrapped ==
    /\ RemoteCallFailed /\ stt_cfg.openai
    /\ stt_error = "RuntimeError: transcription failed"

\* C25: on the remote path the transcription's text is the response's text
\* field when that field is present and not empty, and otherwise the texts of
\* the listed segments joined in their order; the transcription lists the
\* response's segments in the same order.
C25_RawTextFirst ==
    (stt_pc = "done" /\ stt_payload.shape = "object") =>
        /\ stt_result.text =
              IF stt_payload.has_text /\ stt_payload.text # <<>>
              THEN stt_payload.text
              ELSE JoinText(stt_payload.segments)
        /\ stt_payload.segments # <<>>
            => /\ Len(stt_result.segments) = Len(stt_payload.segments)
               /\ \A i \in 1..Len(stt_payload.segments) :
                    stt_result.segments[i].text = stt_payload.segments[i].text

C25_Witness ==
    /\ stt_pc = "done" /\ stt_payload.shape = "object"
    /\ stt_payload.has_text /\ stt_payload.text = <<"a", "b">>
    /\ Len(stt_payload.segments) = 2 /\ JoinText(stt_payload.segments) = <<"b", "a">>
    /\ stt_result.text = <<"a", "b">>

C25_WitnessJoined ==
    /\ stt_pc = "done" /\ stt_payload.shape = "object"
    /\ ~stt_payload.has_text
    /\ stt_result.text = <<"b", "a">> /\ Len(stt_result.segments) = 2

(***************************************************************************)
(* Properties of the worker's service factory                              *)
(***************************************************************************)
\* C29: a job that get_service_factory has returned a factory to holds a
\* started factory, so its create_agent never raises "Services not started",
\* and never more than one set of backend services has been created.
C29_ReturnedFactoryStarted ==
    /\ \A j \in Jobs : job_pc[j] = "has_factory" => started
    /\ \A j \in Jobs : job_result[j] # "RuntimeError: Services not started"
    /\ service_sets <= 1

(***************************************************************************)
(* Properties of the SSE token stream                                      *)
(***************************************************************************)
\* positions of the events of one kind
EventsOf(kind) == {i \in 1..Len(sse_events) : sse_events[i].event = kind}

\* C30: a finished SSE token stream is text events, then at most one usage
\* event, then one done event as its last event when the LLM stream completed;
\* when the LLM stream raised it has exactly one error event and no done
\* event; a usage event's total_tokens is the number of text events before it.
C30_TokenStreamEvents ==
    /\ (sse_pc = "finished" /\ sse_exc = "none")
            => /\ Cardinality(EventsOf("done")) = 1
               /\ sse_events[Len(sse_events)].event = "done"
               /\ Cardinality(EventsOf("usage")) <= 1
               /\ EventsOf("error") = {}
               /\ \A i \in EventsOf("text"), j \in EventsOf("usage") : i < j
    /\ (sse_pc = "finished" /\ sse_exc # "none")
            => /\ Cardinality(EventsOf("error")) = 1
               /\ EventsOf("done") = {}
    /\ \A j \in EventsOf("usage") :
            sse_events[j].total_tokens = Cardinality({i \in EventsOf("text") : i < j})

\* the part of C30 about a stream that completed, for chunks without a usage dict
C30_CompletedStreamOrder ==
    /\ (sse_pc = "finished" /\ sse_exc = "none")
            => /\ Cardinality(EventsOf("done")) = 1
               /\ sse_events[Len(sse_events)].event = "done"
               /\ Cardinality(EventsOf("usage")) <= 1
               /\ EventsOf("error") = {}
               /\ \A i \in EventsOf("text"), j \in EventsOf("usage") : i < j
    /\ sse_exc # "none" => EventsOf("done") = {}
    /\ \A j \in EventsOf("usage") :
            sse_events[j].total_tokens # ChunkUsageTotal
                => sse_events[j].total_tokens = Cardinality({i \in EventsOf("text") : i < j})

====
